---- MODULE Spec2Model ----
(***************************************************************************)
(* LifeMate backend: the resume builder's lifecycle (resumeController.js)  *)
(* over the Resume collection (models/Resume.js), the job seekers'         *)
(* builtResumes index and the Cloudinary artifact store.                   *)
(*                                                                         *)
(* A request handler is a pure operator from the world before the request *)
(* (collections, store, id allocators), the caller, the request and the    *)
(* set F of external calls that fail during the request, to the world      *)
(* after it, the HTTP response and the calls that did fail.  The actions   *)
(* of Spec run one handler to completion at a time.  In SpecConc the       *)
(* requests that read a document and save it later (getResume,             *)
(* downloadResume) take two steps, the findOne and the save, and the steps *)
(* of different requests interleave; SpecCount, SpecDefault and            *)
(* SpecGenerate do the same for counters, set-default and generate-pdf on  *)
(* resumes already stored, and SpecRender renders stored resumes.          *)
(* SpecRefresh, SpecJobs and SpecApplications cover the refresh-token      *)
(* handler of the auth controller, the job controller and the status       *)
(* handler of the application controller.                                  *)
(***************************************************************************)
EXTENDS Integers, Sequences, FiniteSets, TLC

VARIABLES
    resumes,    \* Resume collection: _id -> document
    seekers,    \* JobSeeker collection: _id -> profile with builtResumes
    store,      \* Cloudinary: the publicIds of the raw files it holds
    nextId,     \* next Resume _id to hand out (ids are never reused)
    nextArt,    \* next Cloudinary public_id to hand out
    ops,        \* number of requests served so far
    failures,   \* number of external calls that have failed so far
    pending,    \* requests between reading their document and saving it
    begun,      \* number of requests begun that way so far
    users,      \* User collection: _id -> account with its refresh tokens
    clock,      \* the time in seconds, as jsonwebtoken reads it for iat
    exchanged,  \* the refresh tokens exchanged successfully so far, in order
    employers,  \* Employer collection: _id -> profile with its job stats
    jobs,       \* Job collection: _id -> job
    applications \* Application collection: _id -> application

vars == <<resumes, seekers, store, nextId, nextArt, ops, failures, pending, begun,
          users, clock, exchanged, employers, jobs, applications>>

\* The collections of the auth controller and of the job and application
\* controllers; the resume handlers do not touch them.
account == <<users, clock, exchanged>>

hiring == <<employers, jobs, applications>>

-----------------------------------------------------------------------------
(* Bounds *)

\* Requests served in one run, and external calls that fail in one run.
MaxOps == 3
MaxFailures == 1
\* Requests whose steps interleave with those of others, in one run.
MaxRequests == 3
\* Entries in one list section of a document handed to the renderer.
MaxEntries == 3

-----------------------------------------------------------------------------
(* Schema constants (models/Resume.js) *)

MaxTitleLen == 100
MaxSummaryLen == 1000

SkillLevels == {"Beginner", "Intermediate", "Advanced", "Expert"}

SectionNames ==
    {"summary", "education", "workExperience", "skills", "certifications",
     "projects", "languages", "customSections"}

-----------------------------------------------------------------------------
(* Users and requests *)

\* u1 and u2 are job seekers with a profile; u3 is authenticated but has none.
Users == {"u1", "u2", "u3"}

NoSeeker == "none"

NoDoc == [id |-> 0]

NoPdf == [url |-> "", publicId |-> 0, bytes |-> 0, filename |-> ""]

\* x || y on strings
OrStr(x, y) == IF x # "" THEN x ELSE y

\* String setters of the schema (trim: true), on JavaScript strings.
RECURSIVE TrimLeft(_)
TrimLeft(s) ==
    IF Len(s) > 0 /\ SubSeq(s, 1, 1) = " "
    THEN TrimLeft(SubSeq(s, 2, Len(s)))
    ELSE s

RECURSIVE TrimRight(_)
TrimRight(s) ==
    IF Len(s) > 0 /\ SubSeq(s, Len(s), Len(s)) = " "
    THEN TrimRight(SubSeq(s, 1, Len(s) - 1))
    ELSE s

Trim(s) == TrimRight(TrimLeft(s))

\* A title of 101 characters.
LongTitle ==
    "0123456789012345678901234567890123456789012345678901234567890123456789012345678901234567890123456789x"

\* response helpers of utils/response.js
successResponse(status, msg, data) == [status |-> status, msg |-> msg, data |-> data]
errorResponse(status, msg) == [status |-> status, msg |-> msg, data |-> [kind |-> "none"]]
notFoundResponse(msg) == [status |-> 404, msg |-> msg, data |-> [kind |-> "none"]]
validationErrorResponse(errors) ==
    [status |-> 400, msg |-> "Validation failed", data |-> [kind |-> "errors", errors |-> errors]]

-----------------------------------------------------------------------------
(* The world the handlers act on *)

\* now is the time of the request being served: every request is later than
\* the ones served before it.
World ==
    [resumes |-> resumes, seekers |-> seekers, store |-> store,
     nextId |-> nextId, nextArt |-> nextArt, now |-> ops + 1]

\* JobSeeker.findOne({ user: req.user._id })
FindJobSeeker(sk, u) ==
    IF \E js \in DOMAIN sk : sk[js].user = u
    THEN CHOOSE js \in DOMAIN sk : sk[js].user = u
    ELSE NoSeeker

\* Mutant: the query leaves out the owner.
FindById(rs, id, js) ==
    IF id \in DOMAIN rs THEN rs[id] ELSE NoDoc

\* Resume.findOne({ _id: req.params.id, jobSeeker: jobSeeker._id })
FindOne(rs, id, js) ==
    IF id \in DOMAIN rs /\ rs[id].jobSeeker = js THEN rs[id] ELSE NoDoc

-----------------------------------------------------------------------------
(* models/Resume.js: casting, validation, the pre-save hook, save() *)

ListFields ==
    {"education", "workExperience", "skills", "certifications", "projects",
     "languages", "customSections"}

\* An entry of a list section as the schema completes it: isVisible
\* defaults to true.
CastEntry(e) ==
    IF "isVisible" \in DOMAIN e THEN e ELSE [isVisible |-> TRUE] @@ e

\* Setters and defaults applied when a top-level path is assigned.
Cast(f, v) ==
    CASE f \in {"title", "summary"} -> Trim(v)
      [] f = "personalInfo" -> [k \in DOMAIN v |-> Trim(v[k])]
      [] f \in ListFields -> [i \in 1..Len(v) |-> CastEntry(v[i])]
      [] OTHER -> v

\* The paths that fail validation, each with its message.
Validate(doc) ==
    LET fail(field, message, bad) ==
            IF bad THEN {[field |-> field, message |-> message]} ELSE {}
    IN  fail("title", "Path title is required.", doc.title = "")
        \cup fail("title", "Resume title cannot exceed 100 characters",
                  Len(doc.title) > MaxTitleLen)
        \cup fail("personalInfo.fullName", "Path personalInfo.fullName is required.",
                  doc.personalInfo.fullName = "")
        \cup fail("personalInfo.email", "Path personalInfo.email is required.",
                  doc.personalInfo.email = "")
        \cup fail("summary", "Summary cannot exceed 1000 characters",
                  Len(doc.summary) > MaxSummaryLen)
        \cup fail("skills.level", "not a valid enum value for path level",
                  \E i \in 1..Len(doc.skills) : doc.skills[i].level \notin SkillLevels)
        \cup fail("sectionOrder", "not a valid enum value for path sectionOrder",
                  \E i \in 1..Len(doc.sectionOrder) : doc.sectionOrder[i] \notin SectionNames)

\* The counters of stats are separate paths: a save writes only the one changed.
StatsPaths == {"views", "downloads", "timesUsedInApplications"}

\* document.modifiedPaths(): what differs from the document as loaded.
Modified(old, doc) ==
    IF old = NoDoc
    THEN (DOMAIN doc \ {"stats"}) \cup {"stats." \o p : p \in StatsPaths}
    ELSE {f \in DOMAIN doc \ {"stats"} : doc[f] # old[f]}
         \cup {"stats." \o p : p \in {q \in StatsPaths : doc.stats[q] # old.stats[q]}}

\* updateOne({_id}, {$set: modified paths}) on the stored document.
SetPaths(stored, doc, modified) ==
    [f \in DOMAIN stored |->
        IF f = "stats"
        THEN [p \in StatsPaths |->
                IF ("stats." \o p) \in modified THEN doc.stats[p] ELSE stored.stats[p]]
        ELSE IF f \in modified THEN doc[f] ELSE stored[f]]

\* Mutant: the hook clears nothing.
preSaveNoClear(rs, doc, modified, now) == rs

\* Mutant: the hook clears the others only when isDefault was not just set.
preSaveUnmodified(rs, doc, modified, now) ==
    IF doc.isDefault /\ "isDefault" \notin modified
    THEN [i \in DOMAIN rs |->
            IF rs[i].jobSeeker = doc.jobSeeker /\ i # doc.id
            THEN [rs[i] EXCEPT !.isDefault = FALSE, !.updatedAt = now]
            ELSE rs[i]]
    ELSE rs

\* resumeSchema.pre('save'): a document saved with isDefault newly true
\* clears the flag on every other document of the same job seeker
\* (updateMany, which also sets updatedAt under timestamps: true).
preSave(rs, doc, modified, now) ==
    IF doc.isDefault /\ "isDefault" \in modified
    THEN [i \in DOMAIN rs |->
            IF rs[i].jobSeeker = doc.jobSeeker /\ i # doc.id
            THEN [rs[i] EXCEPT !.isDefault = FALSE, !.updatedAt = now]
            ELSE rs[i]]
    ELSE rs

\* document.save(): validate, run the pre-save hook, write the modified paths.
\* old is the document as loaded (NoDoc for a new one); pt names this call in F.
\* Under timestamps: true a save that writes anything sets updatedAt, on the
\* stored document and on the copy held (doc in the result).
Save(w, old, doc, F, pt) ==
    LET errors == Validate(doc)
        modified == Modified(old, doc)
        clears == doc.isDefault /\ "isDefault" \in modified
        w1 == [w EXCEPT !.resumes = preSave(w.resumes, doc, modified, w.now)]
        stamped == [doc EXCEPT !.updatedAt = w.now]
        failed(name, es, wf, hit) ==
            [ok |-> FALSE, name |-> name, errors |-> es, w |-> wf, hit |-> hit, doc |-> doc]
    IN  IF errors # {}
        THEN failed("ValidationError", errors, w, {})
        ELSE IF clears /\ "updateMany" \in F
        THEN failed("Error", {}, w, {"updateMany"})
        ELSE IF modified = {}
        THEN [ok |-> TRUE, name |-> "", errors |-> {}, w |-> w1, hit |-> {}, doc |-> doc]
        ELSE IF pt \in F
        THEN failed("Error", {}, w1, {pt})
        ELSE IF old = NoDoc
        THEN [ok |-> TRUE, name |-> "", errors |-> {},
              w |-> [w1 EXCEPT !.resumes = (doc.id :> stamped) @@ w1.resumes,
                               !.nextId = doc.id + 1],
              hit |-> {}, doc |-> stamped]
        ELSE IF doc.id \notin DOMAIN w1.resumes
        THEN failed("DocumentNotFoundError", {}, w1, {})
        ELSE [ok |-> TRUE, name |-> "", errors |-> {},
              w |-> [w1 EXCEPT !.resumes[doc.id] =
                        SetPaths(@, stamped, modified \cup {"updatedAt"})],
              hit |-> {}, doc |-> stamped]

-----------------------------------------------------------------------------
(* services/pdfService.js and config/cloudinary.js *)

\* What the renderer draws, in order: rule lines, headings and lines of text.
\* entries names the entries of the section (by position in the stored
\* array) that a line begins to print.
Draw(kind, section, text, entries) ==
    [kind |-> kind, section |-> section, text |-> text, entries |-> entries]

\* addSectionHeader(title): a rule line, then the title in bold.
addSectionHeader(section, title) ==
    <<Draw("rule", section, "", <<>>), Draw("heading", section, title, <<>>)>>

RECURSIVE Join(_, _)
Join(strs, sep) ==
    IF strs = <<>> THEN ""
    ELSE IF Len(strs) = 1 THEN strs[1]
    ELSE strs[1] \o sep \o Join(Tail(strs), sep)

RECURSIVE Concat(_)
Concat(seqs) == IF seqs = <<>> THEN <<>> ELSE Head(seqs) \o Concat(Tail(seqs))

\* list.filter(e => e.isVisible !== false), as positions in the stored array
VisibleIdx(list) ==
    SelectSeq([i \in 1..Len(list) |-> i], LAMBDA i : list[i].isVisible # FALSE)

\* Mutant: the header is drawn for every section that is not empty.
HeadedIfAny(list, vis) == list # <<>>

\* if (list && list.length > 0) { ...; if (visible.length > 0) {
Headed(list, vis) == list # <<>> /\ vis # <<>>

\* The sections in the order the renderer draws them, with their titles.
RenderOrder ==
    <<"summary", "education", "skills", "workExperience", "projects",
      "customSections", "certifications", "languages">>

SectionTitle(s) ==
    CASE s = "summary" -> "Professional Summary"
      [] s = "education" -> "Education"
      [] s = "skills" -> "Technical Skills"
      [] s = "workExperience" -> "Experience"
      [] s = "projects" -> "Projects"
      [] s = "customSections" -> "Extracurricular and Achievements"
      [] s = "certifications" -> "Certifications"
      [] s = "languages" -> "Languages"

\* A Date path that holds no value.
NoDate == [year |-> 0, month |-> 0]

MonthNames ==
    <<"Jan", "Feb", "Mar", "Apr", "May", "Jun",
      "Jul", "Aug", "Sep", "Oct", "Nov", "Dec">>

\* Mutant: an absent date is formatted as the empty string.
formatDateBlank(date) ==
    IF date = NoDate THEN "" ELSE MonthNames[date.month] \o " " \o ToString(date.year)

\* formatDate(date): "Present" for no date, else toLocaleDateString("en-US",
\* {month: "short", year: "numeric"}), as in "Mar 2020".
formatDate(date) ==
    IF date = NoDate THEN "Present" ELSE MonthNames[date.month] \o " " \o ToString(date.year)

\* const endDate of the work-experience block.
endDate(exp) == IF exp.isCurrent THEN "Present" ELSE formatDate(exp.endDate)

\* const dateText of the work-experience block; " - " stands for the dash.
dateText(exp) == formatDate(exp.startDate) \o " - " \o endDate(exp)

\* The lines drawn for entry i of the list of section s (forEach bodies);
\* "* " stands for the bullet.
EntryLines(s, list, i) ==
    LET e == list[i]
    IN  CASE s = "education" ->
               <<Draw("text", s, e.institution, <<i>>), Draw("text", s, e.degree, <<>>)>>
          [] s = "workExperience" ->
               <<Draw("text", s, e.company, <<i>>),
                 Draw("text", s, dateText(e), <<>>),
                 Draw("text", s, e.position, <<>>)>>
          [] s = "projects" -> <<Draw("text", s, e.title, <<i>>)>>
          [] s = "certifications" ->
               <<Draw("text", s, "* " \o e.name \o " - " \o e.issuingOrganization, <<i>>)>>
          [] s = "customSections" ->
               IF e.items # <<>>
               THEN [k \in 1..Len(e.items) |->
                        Draw("text", s, "* " \o e.items[k], IF k = 1 THEN <<i>> ELSE <<>>)]
               ELSE IF e.content # ""
               THEN <<Draw("text", s, "* " \o e.content, <<i>>)>>
               ELSE <<>>

\* The body of a list section whose visible entries are at the positions vis.
SectionBody(s, list, vis) ==
    CASE s = "skills" ->
           <<Draw("text", s,
                  "Languages: " \o Join([k \in 1..Len(vis) |-> list[vis[k]].name], ", "),
                  vis)>>
      [] s = "languages" ->
           <<Draw("text", s,
                  Join([k \in 1..Len(vis) |->
                          list[vis[k]].name \o " (" \o list[vis[k]].proficiency \o ")"], ", "),
                  vis)>>
      [] OTHER -> Concat([k \in 1..Len(vis) |-> EntryLines(s, list, vis[k])])

\* One section of the document as drawn: nothing, or its header and body.
RenderSection(doc, s) ==
    IF s = "summary"
    THEN IF doc.summary # ""
         THEN addSectionHeader(s, SectionTitle(s)) \o <<Draw("text", s, doc.summary, <<>>)>>
         ELSE <<>>
    ELSE LET vis == VisibleIdx(doc[s])
         IN  IF Headed(doc[s], vis)
             THEN addSectionHeader(s, SectionTitle(s)) \o SectionBody(s, doc[s], vis)
             ELSE <<>>

\* The name and the contact line at the top of the page.
RenderHeader(doc) ==
    LET info == doc.personalInfo
        contactInfo == SelectSeq(<<info.phone, info.email>>, LAMBDA x : x # "")
    IN  <<Draw("text", "header", OrStr(info.fullName, "N/A"), <<>>)>>
        \o (IF contactInfo # <<>>
            THEN <<Draw("text", "header", Join(contactInfo, "    "), <<>>)>>
            ELSE <<>>)

\* generateResumePDF(resumeData): the drawing operations of the PDF.
generateResumePDF(doc) ==
    RenderHeader(doc)
    \o Concat([k \in 1..Len(RenderOrder) |-> RenderSection(doc, RenderOrder[k])])

\* generateAndUploadResumePDF: render, then upload; either may throw.
generateAndUploadResumePDF(w, doc, F) ==
    IF "render" \in F
    THEN [ok |-> FALSE, w |-> w, pdf |-> NoPdf, hit |-> {"render"}]
    ELSE IF "upload" \in F
    THEN [ok |-> FALSE, w |-> w, pdf |-> NoPdf, hit |-> {"upload"}]
    ELSE [ok |-> TRUE,
          w |-> [w EXCEPT !.store = @ \cup {w.nextArt}, !.nextArt = @ + 1],
          pdf |-> [url |-> "https://res.cloudinary.com/raw/" \o ToString(w.nextArt),
                   publicId |-> w.nextArt,
                   bytes |-> Len(generateResumePDF(doc)),
                   filename |-> (IF doc.title # "" THEN doc.title ELSE "resume") \o ".pdf"],
          hit |-> {}]

\* deleteFromCloudinary(publicId)
deleteFromCloudinary(w, publicId, F) ==
    IF "cloudDelete" \in F
    THEN [ok |-> FALSE, w |-> w, hit |-> {"cloudDelete"}]
    ELSE [ok |-> TRUE, w |-> [w EXCEPT !.store = @ \ {publicId}], hit |-> {}]

-----------------------------------------------------------------------------
(* controllers/resumeController.js *)

Result(w, resp, hit) == [w |-> w, resp |-> resp, hit |-> hit]

Has(body, k) == k \in DOMAIN body

Range(seq) == {seq[i] : i \in 1..Len(seq)}

DefaultSectionOrder ==
    <<"summary", "workExperience", "education", "skills", "projects",
      "certifications", "languages">>

\* new Resume(resumeData): the schema's defaults under the given data.
NewResume(id, js, data) ==
    [id |-> id,
     jobSeeker |-> js,
     title |-> Cast("title", data.title),
     personalInfo |-> Cast("personalInfo", data.personalInfo),
     summary |-> Cast("summary", data.summary),
     education |-> Cast("education", data.education),
     workExperience |-> Cast("workExperience", data.workExperience),
     skills |-> Cast("skills", data.skills),
     certifications |-> Cast("certifications", data.certifications),
     projects |-> Cast("projects", data.projects),
     languages |-> Cast("languages", data.languages),
     customSections |-> Cast("customSections", data.customSections),
     sectionOrder |-> data.sectionOrder,
     styling |-> data.styling,
     generatedPdf |-> NoPdf,
     isDefault |-> FALSE,
     isPublic |-> FALSE,
     stats |-> [views |-> 0, downloads |-> 0, timesUsedInApplications |-> 0],
     updatedAt |-> 0]

UndefinedInfo == [fullName |-> "", email |-> "", phone |-> ""]

DefaultStyling ==
    [fontFamily |-> "Arial", fontSize |-> 11, primaryColor |-> "#000000",
     accentColor |-> "#2563eb", spacing |-> "normal"]

\* Mutant: with autoPopulate the profile's value wins over the supplied one.
ResumeDataProfileFirst(p, body) ==
    LET autoPopulate == IF Has(body, "autoPopulate") THEN body.autoPopulate ELSE TRUE
        given == IF Has(body, "personalInfo") THEN body.personalInfo ELSE <<>>
        str(k) == IF Has(body, k) THEN body[k] ELSE ""
        list(k) ==
            IF autoPopulate /\ p[k] # <<>> THEN p[k]
            ELSE IF Has(body, k) THEN body[k]
            ELSE <<>>
    IN  [title |-> OrStr(str("title"), "My Resume"),
         personalInfo |->
            IF autoPopulate
            THEN [k \in DOMAIN UndefinedInfo |->
                    IF k = "fullName" THEN p.firstName \o " " \o p.lastName
                    ELSE p[k]]
            ELSE [k \in DOMAIN UndefinedInfo |->
                    IF k \in DOMAIN given THEN given[k] ELSE ""],
         summary |-> IF autoPopulate THEN OrStr(p.bio, str("summary")) ELSE str("summary"),
         education |-> list("education"),
         workExperience |-> list("workExperience"),
         skills |-> list("skills"),
         certifications |-> list("certifications"),
         projects |-> list("projects"),
         languages |-> list("languages"),
         customSections |-> IF Has(body, "customSections") THEN body.customSections ELSE <<>>,
         sectionOrder |-> IF Has(body, "sectionOrder") THEN body.sectionOrder ELSE DefaultSectionOrder,
         styling |-> DefaultStyling]

\* lines 84-121: the resume data built from the request body and the profile
ResumeData(p, body) ==
    LET autoPopulate == IF Has(body, "autoPopulate") THEN body.autoPopulate ELSE TRUE
        given == IF Has(body, "personalInfo") THEN body.personalInfo ELSE <<>>
        str(k) == IF Has(body, k) THEN body[k] ELSE ""
        list(k) ==
            IF Has(body, k) THEN body[k]
            ELSE IF autoPopulate THEN p[k]
            ELSE <<>>
    IN  [title |-> OrStr(str("title"), "My Resume"),
         personalInfo |->
            IF autoPopulate
            THEN [k \in DOMAIN UndefinedInfo |->
                    IF k \in DOMAIN given THEN given[k]
                    ELSE IF k = "fullName" THEN p.firstName \o " " \o p.lastName
                    ELSE p[k]]
            ELSE [k \in DOMAIN UndefinedInfo |->
                    IF k \in DOMAIN given THEN given[k] ELSE ""],
         summary |-> IF autoPopulate THEN OrStr(str("summary"), p.bio) ELSE str("summary"),
         education |-> list("education"),
         workExperience |-> list("workExperience"),
         skills |-> list("skills"),
         certifications |-> list("certifications"),
         projects |-> list("projects"),
         languages |-> list("languages"),
         customSections |-> IF Has(body, "customSections") THEN body.customSections ELSE <<>>,
         sectionOrder |-> IF Has(body, "sectionOrder") THEN body.sectionOrder ELSE DefaultSectionOrder,
         styling |-> DefaultStyling]

\* Mutant: the catch answers 500 whatever the error.
SaveFailedGeneric(w, s, msg) == Result(w, errorResponse(500, msg), {})

\* catch (err) of createResume and updateResume
SaveFailed(w, s, msg) ==
    IF s.name = "ValidationError"
    THEN Result(w, validationErrorResponse(s.errors), {})
    ELSE Result(w, errorResponse(500, msg), {})

\* Mutant: no try/catch around the PDF generation.
createResumeStrict(w, u, body, F) ==
    LET js == FindJobSeeker(w.seekers, u)
        resume == NewResume(w.nextId, js, ResumeData(w.seekers[js], body))
        s1 == Save(w, NoDoc, resume, F, "save")
        g == generateAndUploadResumePDF(s1.w, resume, F)
        withPdf == [s1.doc EXCEPT !.generatedPdf = g.pdf]
        s2 == Save(g.w, s1.doc, withPdf, F, "save2")
        w3 == [s2.w EXCEPT !.seekers[js].builtResumes = Append(@, resume.id)]
    IN  IF "find" \in F
        THEN Result(w, errorResponse(500, "Failed to create resume"), {"find"})
        ELSE IF js = NoSeeker
        THEN Result(w, notFoundResponse("Job seeker profile not found"), {})
        ELSE IF ~s1.ok
        THEN [SaveFailed(s1.w, s1, "Failed to create resume") EXCEPT !.hit = s1.hit]
        ELSE IF ~g.ok
        THEN Result(g.w, errorResponse(500, "Failed to create resume"), g.hit)
        ELSE IF ~s2.ok
        THEN Result(s2.w, errorResponse(500, "Failed to create resume"), s2.hit)
        ELSE IF "jsSave" \in F
        THEN Result(s2.w, errorResponse(500, "Failed to create resume"), {"jsSave"})
        ELSE Result(w3,
                    successResponse(201, "Resume created successfully",
                                    [kind |-> "resume", resume |-> s2.doc]),
                    {})

\* POST /api/resume/build
createResume(w, u, body, F) ==
    LET js == FindJobSeeker(w.seekers, u)
        resume == NewResume(w.nextId, js, ResumeData(w.seekers[js], body))
        s1 == Save(w, NoDoc, resume, F, "save")
        g == generateAndUploadResumePDF(s1.w, resume, F)
        withPdf == [s1.doc EXCEPT !.generatedPdf = g.pdf]
        s2 == Save(g.w, s1.doc, withPdf, F, "save2")
        \* after the try/catch around PDF generation
        pdfOk == g.ok /\ s2.ok
        w2 == IF g.ok THEN s2.w ELSE s1.w
        hit2 == s1.hit \cup g.hit \cup (IF g.ok THEN s2.hit ELSE {})
        held == IF g.ok THEN s2.doc ELSE s1.doc
        w3 == [w2 EXCEPT !.seekers[js].builtResumes = Append(@, resume.id)]
    IN  IF "find" \in F
        THEN Result(w, errorResponse(500, "Failed to create resume"), {"find"})
        ELSE IF js = NoSeeker
        THEN Result(w, notFoundResponse("Job seeker profile not found"), {})
        ELSE IF ~s1.ok
        THEN [SaveFailed(s1.w, s1, "Failed to create resume") EXCEPT !.hit = s1.hit]
        ELSE IF "jsSave" \in F
        THEN Result(w2, errorResponse(500, "Failed to create resume"), hit2 \cup {"jsSave"})
        ELSE Result(w3,
                    successResponse(201, "Resume created successfully",
                                    [kind |-> "resume", resume |-> held]),
                    hit2)

\* sort({ isDefault: -1, updatedAt: -1 }): a comes before b.
SortsBefore(a, b) ==
    \/ a.isDefault /\ ~b.isDefault
    \/ a.isDefault = b.isDefault /\ a.updatedAt > b.updatedAt

\* Mutant: the documents come in _id order.
RECURSIVE SortedById(_)
SortedById(docs) ==
    IF docs = {} THEN <<>>
    ELSE LET first == CHOOSE d \in docs : \A e \in docs : d.id <= e.id
         IN  <<first>> \o SortedById(docs \ {first})

\* The documents in sorted order; those the sort keys do not tell apart come
\* in _id order.
RECURSIVE Sorted(_)
Sorted(docs) ==
    IF docs = {} THEN <<>>
    ELSE LET first == CHOOSE d \in docs :
                         \A e \in docs \ {d} :
                             \/ SortsBefore(d, e)
                             \/ ~SortsBefore(e, d) /\ d.id < e.id
         IN  <<first>> \o Sorted(docs \ {first})

\* GET /api/resume/list
getMyResumes(w, u, F) ==
    LET js == FindJobSeeker(w.seekers, u)
        found == Sorted({w.resumes[i] : i \in {k \in DOMAIN w.resumes : w.resumes[k].jobSeeker = js}})
    IN  IF "find" \in F
        THEN Result(w, errorResponse(500, "Failed to fetch resumes"), {"find"})
        ELSE IF js = NoSeeker
        THEN Result(w, notFoundResponse("Job seeker profile not found"), {})
        ELSE Result(w,
                    successResponse(200, "Resumes fetched successfully",
                                    [kind |-> "list", resumes |-> found, count |-> Len(found)]),
                    {})

\* Mutant: the fetch counts a download instead of a view.
getResumeAsDownload(w, u, id, F) ==
    LET js == FindJobSeeker(w.seekers, u)
        resume == FindOne(w.resumes, id, js)
        viewed == [resume EXCEPT !.stats.downloads = @ + 1]
        s == Save(w, resume, viewed, F, "save")
    IN  IF "find" \in F
        THEN Result(w, errorResponse(500, "Failed to fetch resume"), {"find"})
        ELSE IF js = NoSeeker
        THEN Result(w, notFoundResponse("Job seeker profile not found"), {})
        ELSE IF resume = NoDoc
        THEN Result(w, notFoundResponse("Resume not found"), {})
        ELSE IF ~s.ok
        THEN Result(s.w, errorResponse(500, "Failed to fetch resume"), s.hit)
        ELSE Result(s.w,
                    successResponse(200, "Resume fetched successfully",
                                    [kind |-> "resume", resume |-> s.doc]),
                    s.hit)

\* GET /api/resume/:id
getResume(w, u, id, F) ==
    LET js == FindJobSeeker(w.seekers, u)
        resume == FindOne(w.resumes, id, js)
        viewed == [resume EXCEPT !.stats.views = @ + 1]
        s == Save(w, resume, viewed, F, "save")
    IN  IF "find" \in F
        THEN Result(w, errorResponse(500, "Failed to fetch resume"), {"find"})
        ELSE IF js = NoSeeker
        THEN Result(w, notFoundResponse("Job seeker profile not found"), {})
        ELSE IF resume = NoDoc
        THEN Result(w, notFoundResponse("Resume not found"), {})
        ELSE IF ~s.ok
        THEN Result(s.w, errorResponse(500, "Failed to fetch resume"), s.hit)
        ELSE Result(s.w,
                    successResponse(200, "Resume fetched successfully",
                                    [kind |-> "resume", resume |-> s.doc]),
                    s.hit)

\* Mutant: the preview counts a view, as the fetch does.
previewResumeCounting(w, u, id, F) ==
    LET js == FindJobSeeker(w.seekers, u)
        resume == FindOne(w.resumes, id, js)
        viewed == [resume EXCEPT !.stats.views = @ + 1]
        s == Save(w, resume, viewed, F, "save")
    IN  IF "find" \in F
        THEN Result(w, errorResponse(500, "Failed to fetch resume preview"), {"find"})
        ELSE IF js = NoSeeker
        THEN Result(w, notFoundResponse("Job seeker profile not found"), {})
        ELSE IF resume = NoDoc
        THEN Result(w, notFoundResponse("Resume not found"), {})
        ELSE Result(s.w,
                    successResponse(200, "Resume preview fetched",
                                    [kind |-> "resume", resume |-> resume]),
                    {})

\* GET /api/resume/:id/preview
previewResume(w, u, id, F) ==
    LET js == FindJobSeeker(w.seekers, u)
        resume == FindOne(w.resumes, id, js)
    IN  IF "find" \in F
        THEN Result(w, errorResponse(500, "Failed to fetch resume preview"), {"find"})
        ELSE IF js = NoSeeker
        THEN Result(w, notFoundResponse("Job seeker profile not found"), {})
        ELSE IF resume = NoDoc
        THEN Result(w, notFoundResponse("Resume not found"), {})
        ELSE Result(w,
                    successResponse(200, "Resume preview fetched",
                                    [kind |-> "resume", resume |-> resume]),
                    {})

AllowedFields ==
    {"title", "templateId", "personalInfo", "summary", "education",
     "workExperience", "skills", "certifications", "projects", "languages",
     "customSections", "sectionOrder", "styling", "isPublic"}

\* Mutant: a list the body leaves out is emptied (body[field] || []).
AssignAllowedOrEmpty(resume, body) ==
    [f \in DOMAIN resume |->
        IF f \in AllowedFields /\ Has(body, f) THEN Cast(f, body[f])
        ELSE IF f \in ListFields THEN <<>>
        ELSE resume[f]]

\* Mutant: every path the body defines is assigned, allowed or not.
AssignAny(resume, body) ==
    [f \in DOMAIN resume |-> IF Has(body, f) THEN Cast(f, body[f]) ELSE resume[f]]

\* lines 235-239: every allowed field the body defines is assigned.  A path
\* the schema does not declare (templateId) is not part of the document.
AssignAllowed(resume, body) ==
    [f \in DOMAIN resume |->
        IF f \in AllowedFields /\ Has(body, f) THEN Cast(f, body[f]) ELSE resume[f]]

\* Mutant: no try/catch around the regeneration of the PDF.
updateResumeStrict(w, u, id, body, F) ==
    LET js == FindJobSeeker(w.seekers, u)
        resume == FindOne(w.resumes, id, js)
        updated == AssignAllowed(resume, body)
        s1 == Save(w, resume, updated, F, "save")
        regenerate == Has(body, "regeneratePdf") /\ body.regeneratePdf = TRUE
        d == IF updated.generatedPdf.publicId # 0
             THEN deleteFromCloudinary(s1.w, updated.generatedPdf.publicId, F)
             ELSE [ok |-> TRUE, w |-> s1.w, hit |-> {}]
        g == generateAndUploadResumePDF(d.w, s1.doc, F)
        withPdf == [s1.doc EXCEPT !.generatedPdf = g.pdf]
        s2 == Save(g.w, s1.doc, withPdf, F, "save2")
    IN  IF "find" \in F
        THEN Result(w, errorResponse(500, "Failed to update resume"), {"find"})
        ELSE IF js = NoSeeker
        THEN Result(w, notFoundResponse("Job seeker profile not found"), {})
        ELSE IF resume = NoDoc
        THEN Result(w, notFoundResponse("Resume not found"), {})
        ELSE IF ~s1.ok
        THEN [SaveFailed(s1.w, s1, "Failed to update resume") EXCEPT !.hit = s1.hit]
        ELSE IF ~regenerate
        THEN Result(s1.w,
                    successResponse(200, "Resume updated successfully",
                                    [kind |-> "resume", resume |-> s1.doc]),
                    s1.hit)
        ELSE IF ~d.ok
        THEN Result(d.w, errorResponse(500, "Failed to update resume"), d.hit)
        ELSE IF ~g.ok
        THEN Result(g.w, errorResponse(500, "Failed to update resume"), g.hit)
        ELSE IF ~s2.ok
        THEN Result(s2.w, errorResponse(500, "Failed to update resume"), s2.hit)
        ELSE Result(s2.w,
                    successResponse(200, "Resume updated successfully",
                                    [kind |-> "resume", resume |-> s2.doc]),
                    {})

\* PUT /api/resume/:id
updateResume(w, u, id, body, F) ==
    LET js == FindJobSeeker(w.seekers, u)
        resume == FindOne(w.resumes, id, js)
        updated == AssignAllowed(resume, body)
        s1 == Save(w, resume, updated, F, "save")
        regenerate == Has(body, "regeneratePdf") /\ body.regeneratePdf = TRUE
        \* inside the try block of the regeneration
        hasOld == updated.generatedPdf.publicId # 0
        d == IF hasOld
             THEN deleteFromCloudinary(s1.w, updated.generatedPdf.publicId, F)
             ELSE [ok |-> TRUE, w |-> s1.w, hit |-> {}]
        g == generateAndUploadResumePDF(d.w, s1.doc, F)
        withPdf == [s1.doc EXCEPT !.generatedPdf = g.pdf]
        s2 == Save(g.w, s1.doc, withPdf, F, "save2")
        tried ==
            IF ~d.ok THEN [w |-> d.w, hit |-> d.hit, held |-> s1.doc]
            ELSE IF ~g.ok THEN [w |-> g.w, hit |-> d.hit \cup g.hit, held |-> s1.doc]
            ELSE [w |-> s2.w, hit |-> d.hit \cup g.hit \cup s2.hit, held |-> s2.doc]
    IN  IF "find" \in F
        THEN Result(w, errorResponse(500, "Failed to update resume"), {"find"})
        ELSE IF js = NoSeeker
        THEN Result(w, notFoundResponse("Job seeker profile not found"), {})
        ELSE IF resume = NoDoc
        THEN Result(w, notFoundResponse("Resume not found"), {})
        ELSE IF ~s1.ok
        THEN [SaveFailed(s1.w, s1, "Failed to update resume") EXCEPT !.hit = s1.hit]
        ELSE IF regenerate
        THEN Result(tried.w,
                    successResponse(200, "Resume updated successfully",
                                    [kind |-> "resume", resume |-> tried.held]),
                    s1.hit \cup tried.hit)
        ELSE Result(s1.w,
                    successResponse(200, "Resume updated successfully",
                                    [kind |-> "resume", resume |-> s1.doc]),
                    s1.hit)

\* jobSeeker.builtResumes.filter(id => id.toString() !== resume._id.toString())
Without(seq, id) == SelectSeq(seq, LAMBDA x : x # id)

\* Mutant: no try/catch around the deletion of the PDF from Cloudinary.
deleteResumeStrict(w, u, id, F) ==
    LET js == FindJobSeeker(w.seekers, u)
        resume == FindOne(w.resumes, id, js)
        d == IF resume.generatedPdf.publicId # 0
             THEN deleteFromCloudinary(w, resume.generatedPdf.publicId, F)
             ELSE [ok |-> TRUE, w |-> w, hit |-> {}]
        w1 == [d.w EXCEPT !.seekers[js].builtResumes = Without(@, resume.id)]
        w2 == [w1 EXCEPT !.resumes = [i \in DOMAIN @ \ {resume.id} |-> @[i]]]
    IN  IF "find" \in F
        THEN Result(w, errorResponse(500, "Failed to delete resume"), {"find"})
        ELSE IF js = NoSeeker
        THEN Result(w, notFoundResponse("Job seeker profile not found"), {})
        ELSE IF resume = NoDoc
        THEN Result(w, notFoundResponse("Resume not found"), {})
        ELSE IF ~d.ok
        THEN Result(d.w, errorResponse(500, "Failed to delete resume"), d.hit)
        ELSE IF "jsSave" \in F
        THEN Result(d.w, errorResponse(500, "Failed to delete resume"), d.hit \cup {"jsSave"})
        ELSE IF "deleteOne" \in F
        THEN Result(w1, errorResponse(500, "Failed to delete resume"), d.hit \cup {"deleteOne"})
        ELSE Result(w2,
                    successResponse(200, "Resume deleted successfully", [kind |-> "none"]),
                    d.hit)

\* DELETE /api/resume/:id
deleteResume(w, u, id, F) ==
    LET js == FindJobSeeker(w.seekers, u)
        resume == FindOne(w.resumes, id, js)
        d == IF resume.generatedPdf.publicId # 0
             THEN deleteFromCloudinary(w, resume.generatedPdf.publicId, F)
             ELSE [ok |-> TRUE, w |-> w, hit |-> {}]
        w1 == [d.w EXCEPT !.seekers[js].builtResumes = Without(@, resume.id)]
        w2 == [w1 EXCEPT !.resumes = [i \in DOMAIN @ \ {resume.id} |-> @[i]]]
    IN  IF "find" \in F
        THEN Result(w, errorResponse(500, "Failed to delete resume"), {"find"})
        ELSE IF js = NoSeeker
        THEN Result(w, notFoundResponse("Job seeker profile not found"), {})
        ELSE IF resume = NoDoc
        THEN Result(w, notFoundResponse("Resume not found"), {})
        ELSE IF "jsSave" \in F
        THEN Result(d.w, errorResponse(500, "Failed to delete resume"), d.hit \cup {"jsSave"})
        ELSE IF "deleteOne" \in F
        THEN Result(w1, errorResponse(500, "Failed to delete resume"), d.hit \cup {"deleteOne"})
        ELSE Result(w2,
                    successResponse(200, "Resume deleted successfully", [kind |-> "none"]),
                    d.hit)

\* Mutant: the old reference is cleared and saved before the new PDF is made.
generatePDFClearFirst(w, u, id, F) ==
    LET js == FindJobSeeker(w.seekers, u)
        resume == FindOne(w.resumes, id, js)
        d == IF resume.generatedPdf.publicId # 0
             THEN deleteFromCloudinary(w, resume.generatedPdf.publicId, F)
             ELSE [ok |-> TRUE, w |-> w, hit |-> {}]
        c == Save(d.w, resume, [resume EXCEPT !.generatedPdf = NoPdf], {}, "save")
        g == generateAndUploadResumePDF(c.w, c.doc, F)
        withPdf == [c.doc EXCEPT !.generatedPdf = g.pdf]
        s == Save(g.w, c.doc, withPdf, F, "save")
    IN  IF "find" \in F
        THEN Result(w, errorResponse(500, "Failed to generate PDF"), {"find"})
        ELSE IF js = NoSeeker
        THEN Result(w, notFoundResponse("Job seeker profile not found"), {})
        ELSE IF resume = NoDoc
        THEN Result(w, notFoundResponse("Resume not found"), {})
        ELSE IF ~g.ok
        THEN Result(g.w, errorResponse(500, "Failed to generate PDF"), d.hit \cup g.hit)
        ELSE IF ~s.ok
        THEN Result(s.w, errorResponse(500, "Failed to generate PDF"), d.hit \cup s.hit)
        ELSE Result(s.w,
                    successResponse(200, "PDF generated successfully",
                                    [kind |-> "pdf", pdf |-> withPdf.generatedPdf]),
                    d.hit)

\* POST /api/resume/:id/generate-pdf
generatePDF(w, u, id, F) ==
    LET js == FindJobSeeker(w.seekers, u)
        resume == FindOne(w.resumes, id, js)
        d == IF resume.generatedPdf.publicId # 0
             THEN deleteFromCloudinary(w, resume.generatedPdf.publicId, F)
             ELSE [ok |-> TRUE, w |-> w, hit |-> {}]
        g == generateAndUploadResumePDF(d.w, resume, F)
        withPdf == [resume EXCEPT !.generatedPdf = g.pdf]
        s == Save(g.w, resume, withPdf, F, "save")
    IN  IF "find" \in F
        THEN Result(w, errorResponse(500, "Failed to generate PDF"), {"find"})
        ELSE IF js = NoSeeker
        THEN Result(w, notFoundResponse("Job seeker profile not found"), {})
        ELSE IF resume = NoDoc
        THEN Result(w, notFoundResponse("Resume not found"), {})
        ELSE IF ~g.ok
        THEN Result(g.w, errorResponse(500, "Failed to generate PDF"), d.hit \cup g.hit)
        ELSE IF ~s.ok
        THEN Result(s.w, errorResponse(500, "Failed to generate PDF"), d.hit \cup s.hit)
        ELSE Result(s.w,
                    successResponse(200, "PDF generated successfully",
                                    [kind |-> "pdf", pdf |-> withPdf.generatedPdf]),
                    d.hit)

\* POST /api/resume/:id/set-default
setDefault(w, u, id, F) ==
    LET js == FindJobSeeker(w.seekers, u)
        resume == FindOne(w.resumes, id, js)
        marked == [resume EXCEPT !.isDefault = TRUE]
        s == Save(w, resume, marked, F, "save")
    IN  IF "find" \in F
        THEN Result(w, errorResponse(500, "Failed to set default resume"), {"find"})
        ELSE IF js = NoSeeker
        THEN Result(w, notFoundResponse("Job seeker profile not found"), {})
        ELSE IF resume = NoDoc
        THEN Result(w, notFoundResponse("Resume not found"), {})
        ELSE IF ~s.ok
        THEN Result(s.w, errorResponse(500, "Failed to set default resume"), s.hit)
        ELSE Result(s.w,
                    successResponse(200, "Resume set as default successfully",
                                    [kind |-> "resume", resume |-> s.doc]),
                    s.hit)

\* Mutant: the download is counted before the PDF is looked for.
downloadResumeCountFirst(w, u, id, F) ==
    LET js == FindJobSeeker(w.seekers, u)
        resume == FindOne(w.resumes, id, js)
        counted == [resume EXCEPT !.stats.downloads = @ + 1]
        s == Save(w, resume, counted, F, "save")
    IN  IF "find" \in F
        THEN Result(w, errorResponse(500, "Failed to get download link"), {"find"})
        ELSE IF js = NoSeeker
        THEN Result(w, notFoundResponse("Job seeker profile not found"), {})
        ELSE IF resume = NoDoc
        THEN Result(w, notFoundResponse("Resume not found"), {})
        ELSE IF ~s.ok
        THEN Result(s.w, errorResponse(500, "Failed to get download link"), s.hit)
        ELSE IF resume.generatedPdf.url = ""
        THEN Result(s.w, errorResponse(404, "PDF not generated yet. Please generate PDF first."), s.hit)
        ELSE Result(s.w,
                    successResponse(200, "Resume download link",
                                    [kind |-> "download",
                                     downloadUrl |-> counted.generatedPdf.url,
                                     filename |-> counted.generatedPdf.filename]),
                    s.hit)

\* POST /api/resume/:id/download
downloadResume(w, u, id, F) ==
    LET js == FindJobSeeker(w.seekers, u)
        resume == FindOne(w.resumes, id, js)
        counted == [resume EXCEPT !.stats.downloads = @ + 1]
        s == Save(w, resume, counted, F, "save")
    IN  IF "find" \in F
        THEN Result(w, errorResponse(500, "Failed to get download link"), {"find"})
        ELSE IF js = NoSeeker
        THEN Result(w, notFoundResponse("Job seeker profile not found"), {})
        ELSE IF resume = NoDoc
        THEN Result(w, notFoundResponse("Resume not found"), {})
        ELSE IF resume.generatedPdf.url = ""
        THEN Result(w, errorResponse(404, "PDF not generated yet. Please generate PDF first."), {})
        ELSE IF ~s.ok
        THEN Result(s.w, errorResponse(500, "Failed to get download link"), s.hit)
        ELSE Result(s.w,
                    successResponse(200, "Resume download link",
                                    [kind |-> "download",
                                     downloadUrl |-> counted.generatedPdf.url,
                                     filename |-> counted.generatedPdf.filename]),
                    s.hit)

-----------------------------------------------------------------------------
(* Requests *)

EmptyBody == [k \in {} |-> ""]

CreateBodies ==
    {EmptyBody,
     [autoPopulate |-> FALSE]}

\* A body that names only the title; one that also names server-managed
\* paths; one asking for a new PDF; one the schema rejects; one naming a path
\* the schema does not declare.
TitleOnly == [title |-> " X "]

Managed ==
    [title |-> " X ",
     jobSeeker |-> "js2",
     isDefault |-> TRUE,
     stats |-> [views |-> 7, downloads |-> 7, timesUsedInApplications |-> 7],
     generatedPdf |-> [url |-> "https://elsewhere/cv.pdf", publicId |-> 99, bytes |-> 1,
                       filename |-> "cv.pdf"]]

\* A body that changes the summary and asks for a new PDF.
Regenerating == [summary |-> "S", regeneratePdf |-> TRUE]

UpdateBodies ==
    {TitleOnly,
     Managed,
     Regenerating,
     [title |-> LongTitle],
     [templateId |-> "classic"]}

\* The handlers that take a document id, by name.
IdOps == {"get", "preview", "update", "delete", "generate", "download", "setDefault"}

\* The external calls each handler makes, any of which may fail.
FaultPoints(op) ==
    CASE op = "create" -> {"find", "save", "render", "upload", "save2", "jsSave"}
      [] op = "list" -> {"find"}
      [] op = "get" -> {"find", "save"}
      [] op = "preview" -> {"find"}
      [] op = "update" -> {"find", "save", "cloudDelete", "render", "upload", "save2"}
      [] op = "delete" -> {"find", "cloudDelete", "jsSave", "deleteOne"}
      [] op = "generate" -> {"find", "cloudDelete", "render", "upload", "save"}
      [] op = "download" -> {"find", "save"}
      [] op = "setDefault" -> {"find", "updateMany", "save"}

Bodies(op) ==
    CASE op = "create" -> CreateBodies
      [] op = "update" -> UpdateBodies
      [] OTHER -> {EmptyBody}

\* The router: the handler of each route.
Handle(op, w, u, id, body, F) ==
    CASE op = "create" -> createResume(w, u, body, F)
      [] op = "list" -> getMyResumes(w, u, F)
      [] op = "get" -> getResume(w, u, id, F)
      [] op = "preview" -> previewResume(w, u, id, F)
      [] op = "update" -> updateResume(w, u, id, body, F)
      [] op = "delete" -> deleteResume(w, u, id, F)
      [] op = "generate" -> generatePDF(w, u, id, F)
      [] op = "download" -> downloadResume(w, u, id, F)
      [] op = "setDefault" -> setDefault(w, u, id, F)

\* The ids a request may name: every id handed out so far and one never handed out.
Ids == 1..nextId

\* The sets of calls that may fail during one request to op.
Faults(op) == {F \in SUBSET FaultPoints(op) : Cardinality(F) <= MaxFailures - failures}

\* The state after a request: the world its handler leaves.
Commit(r) ==
    /\ resumes' = r.w.resumes
    /\ seekers' = r.w.seekers
    /\ store' = r.w.store
    /\ nextId' = r.w.nextId
    /\ nextArt' = r.w.nextArt
    /\ ops' = ops + 1
    /\ failures' = failures + Cardinality(r.hit)
    /\ UNCHANGED <<pending, begun, account, hiring>>

\* Each action serves one request to completion, with exactly the calls of F
\* failing: F holds no call the handler does not reach.
CreateResume ==
    /\ ops < MaxOps
    /\ \E u \in Users, body \in CreateBodies, F \in Faults("create") :
         LET r == createResume(World, u, body, F)
         IN  r.hit = F /\ Commit(r)

GetMyResumes ==
    /\ ops < MaxOps
    /\ \E u \in Users, F \in Faults("list") :
         LET r == getMyResumes(World, u, F)
         IN  r.hit = F /\ Commit(r)

GetResume ==
    /\ ops < MaxOps
    /\ \E u \in Users, id \in Ids, F \in Faults("get") :
         LET r == getResume(World, u, id, F)
         IN  r.hit = F /\ Commit(r)

PreviewResume ==
    /\ ops < MaxOps
    /\ \E u \in Users, id \in Ids, F \in Faults("preview") :
         LET r == previewResume(World, u, id, F)
         IN  r.hit = F /\ Commit(r)

UpdateResume ==
    /\ ops < MaxOps
    /\ \E u \in Users, id \in Ids, body \in UpdateBodies, F \in Faults("update") :
         LET r == updateResume(World, u, id, body, F)
         IN  r.hit = F /\ Commit(r)

DeleteResume ==
    /\ ops < MaxOps
    /\ \E u \in Users, id \in Ids, F \in Faults("delete") :
         LET r == deleteResume(World, u, id, F)
         IN  r.hit = F /\ Commit(r)

GeneratePDF ==
    /\ ops < MaxOps
    /\ \E u \in Users, id \in Ids, F \in Faults("generate") :
         LET r == generatePDF(World, u, id, F)
         IN  r.hit = F /\ Commit(r)

SetDefault ==
    /\ ops < MaxOps
    /\ \E u \in Users, id \in Ids, F \in Faults("setDefault") :
         LET r == setDefault(World, u, id, F)
         IN  r.hit = F /\ Commit(r)

DownloadResume ==
    /\ ops < MaxOps
    /\ \E u \in Users, id \in Ids, F \in Faults("download") :
         LET r == downloadResume(World, u, id, F)
         IN  r.hit = F /\ Commit(r)

-----------------------------------------------------------------------------
(* utils/jwt.js and the User documents of the auth controller *)

Accounts == {"u1", "u2", "u3", "u4"}

\* jwt.sign({ userId }, secret, { expiresIn }): the token is a function of
\* the user id and of iat, the time in whole seconds (exp is iat plus a
\* constant and the signature is an HMAC of the rest), so two tokens signed
\* for one user within one second are the same string.
generateRefreshToken(userId, now) == [userId |-> userId, iat |-> now]

\* user.removeRefreshToken(token): the entries holding the token leave the list.
removeRefreshToken(us, id, token) ==
    [us EXCEPT ![id].refreshTokens = SelectSeq(@, LAMBDA t : t # token)]

\* user.addRefreshToken(token): the token joins the list.
addRefreshToken(us, id, token) ==
    [us EXCEPT ![id].refreshTokens = Append(@, token)]

\* Four users who have just logged in: u2 is blocked, u3 is locked and u4 is
\* not active.
InitAccounts ==
    /\ users = [u \in Accounts |->
                  [isActive |-> u # "u4", isBlocked |-> u = "u2", isLocked |-> u = "u3",
                   refreshTokens |-> <<generateRefreshToken(u, 0)>>]]
    /\ clock = 0
    /\ exchanged = <<>>

-----------------------------------------------------------------------------
(* The Employer, Job and Application documents *)

\* The users of the job and application routes: two employers and an admin.
Staff == {"emp1", "emp2", "admin1"}

Role(u) == IF u = "admin1" THEN "admin" ELSE "employer"

NoEmployer == "none"

JobStatuses == {"Pending", "Active", "Closed", "Archived"}

ApplicationStatuses == {"Applied", "Shortlisted", "Rejected", "Hired"}

\* Employer.findOne({ user: req.user._id })
FindEmployer(es, u) ==
    IF \E e \in DOMAIN es : es[e].user = u
    THEN CHOOSE e \in DOMAIN es : es[e].user = u
    ELSE NoEmployer

\* Employer e1 has one active job and one application to it; e2 has an
\* application and a job that is pending.
InitHiring ==
    /\ employers = ("e1" :> [user |-> "emp1", stats |-> [totalJobs |-> 1, activeJobs |-> 1]])
                   @@ ("e2" :> [user |-> "emp2", stats |-> [totalJobs |-> 1, activeJobs |-> 0]])
    /\ jobs = (1 :> [employer |-> "e1", title |-> "Cook", status |-> "Active"])
              @@ (2 :> [employer |-> "e2", title |-> "Clerk", status |-> "Pending"])
    /\ applications =
            (1 :> [employer |-> "e1", job |-> 1, status |-> "Applied", history |-> <<>>,
                   updatedAtManual |-> 0])
            @@ (2 :> [employer |-> "e2", job |-> 2, status |-> "Applied", history |-> <<>>,
                      updatedAtManual |-> 0])

-----------------------------------------------------------------------------
(* The job seekers' profiles (JobSeeker documents with their populated user) *)

Profile(u, first, family) ==
    [user |-> u, firstName |-> first, lastName |-> family,
     email |-> first \o "@mail", phone |-> "555",
     bio |-> "Bio of " \o first,
     education |-> <<[degree |-> "BSc", institution |-> "MIT"],
                     [degree |-> "MSc", institution |-> "ETH"]>>,
     workExperience |-> <<>>,
     skills |-> <<[name |-> "SQL", level |-> "Advanced"]>>,
     certifications |-> <<>>,
     projects |-> <<>>,
     languages |-> <<>>,
     builtResumes |-> <<>>]

Init ==
    /\ resumes = [i \in {} |-> NoDoc]
    /\ seekers = ("js1" :> Profile("u1", "Ann", "Lee")) @@ ("js2" :> Profile("u2", "Bob", "Ray"))
    /\ store = {}
    /\ nextId = 1
    /\ nextArt = 1
    /\ ops = 0
    /\ failures = 0
    /\ pending = {}
    /\ begun = 0
    /\ InitAccounts
    /\ InitHiring

Next ==
    \/ CreateResume
    \/ GetMyResumes
    \/ GetResume
    \/ PreviewResume
    \/ UpdateResume
    \/ DeleteResume
    \/ GeneratePDF
    \/ SetDefault
    \/ DownloadResume

Spec == Init /\ [][Next]_vars

-----------------------------------------------------------------------------
(* Interleaved requests.  Between the await of Resume.findOne and the await *)
(* of resume.save() a handler holds its own copy of the document; save()    *)
(* writes the paths modified on that copy.                                  *)

\* Request number begun + 1 has read resume and holds it.
Hold(op, resume) ==
    /\ pending' = pending \cup {[n |-> begun + 1, op |-> op, resume |-> resume]}
    /\ begun' = begun + 1
    /\ UNCHANGED <<resumes, seekers, store, nextId, nextArt, ops, failures, account, hiring>>

\* Mutant: the save adds the request's change to the counters as stored
\* ($inc) instead of writing the values of the copy it holds.
FinishFresh(p, changed) ==
    /\ \E F \in {G \in SUBSET {"save"} : Cardinality(G) <= MaxFailures - failures} :
         /\ resumes' =
                IF F = {}
                THEN [resumes EXCEPT ![p.resume.id].stats =
                        [c \in StatsPaths |->
                            @[c] + changed.stats[c] - p.resume.stats[c]]]
                ELSE resumes
         /\ failures' = failures + Cardinality(F)
    /\ pending' = pending \ {p}
    /\ UNCHANGED <<seekers, store, nextId, nextArt, ops, begun, account, hiring>>

\* resume.save() of request p, on the copy it holds and has changed.
Finish(p, changed) ==
    /\ \E F \in {G \in SUBSET {"save"} : Cardinality(G) <= MaxFailures - failures} :
         LET s == Save(World, p.resume, changed, F, "save")
         IN  /\ s.hit = F
             /\ resumes' = s.w.resumes
             /\ failures' = failures + Cardinality(F)
    /\ pending' = pending \ {p}
    /\ UNCHANGED <<seekers, store, nextId, nextArt, ops, begun, account, hiring>>

\* getResume up to its findOne: the caller's resume is found (a request that
\* finds none ends there and changes nothing).
BeginGet ==
    /\ begun < MaxRequests
    /\ \E u \in Users, id \in DOMAIN resumes :
         LET resume == FindOne(resumes, id, FindJobSeeker(seekers, u))
         IN  resume # NoDoc /\ Hold("get", resume)

\* getResume from the increment on: stats.views += 1, save.
EndGet ==
    \E p \in pending :
        /\ p.op = "get"
        /\ Finish(p, [p.resume EXCEPT !.stats.views = @ + 1])

\* downloadResume up to its findOne: the caller's resume is found and has a
\* PDF (a request that finds none ends there and changes nothing).
BeginDownload ==
    /\ begun < MaxRequests
    /\ \E u \in Users, id \in DOMAIN resumes :
         LET resume == FindOne(resumes, id, FindJobSeeker(seekers, u))
         IN  resume # NoDoc /\ resume.generatedPdf.url # "" /\ Hold("download", resume)

\* downloadResume from the increment on: stats.downloads += 1, save.
EndDownload ==
    \E p \in pending :
        /\ p.op = "download"
        /\ Finish(p, [p.resume EXCEPT !.stats.downloads = @ + 1])

NextConc ==
    \/ CreateResume
    \/ BeginGet
    \/ EndGet
    \/ BeginDownload
    \/ EndDownload

SpecConc == Init /\ [][NextConc]_vars

-----------------------------------------------------------------------------
(* Rendering.  SpecRender starts from a stored resume without a PDF whose    *)
(* sections take every shape the renderer tells apart, and serves           *)
(* generate-pdf requests on it.                                             *)

\* Entry i of the list section s, shown or hidden.  Of the custom sections
\* the first has neither items nor content, the second has items, the
\* others have content.  Of the work experiences the first is current and
\* has an end date, the second is not current and has none, the third is
\* not current and has one, the fourth is current and has none.
Entry(s, i, shown) ==
    LET n == ToString(i)
    IN  CASE s = "education" ->
               [institution |-> "School " \o n, degree |-> "BSc", isVisible |-> shown]
          [] s = "workExperience" ->
               [company |-> "Firm " \o n, position |-> "Engineer",
                startDate |-> [year |-> 2020, month |-> i],
                endDate |-> IF i % 2 = 0 THEN NoDate ELSE [year |-> 2021, month |-> 6],
                isCurrent |-> i \in {1, 4},
                isVisible |-> shown]
          [] s = "skills" ->
               [name |-> "Skill " \o n, level |-> "Expert", isVisible |-> shown]
          [] s = "projects" -> [title |-> "Project " \o n, isVisible |-> shown]
          [] s = "certifications" ->
               [name |-> "Cert " \o n, issuingOrganization |-> "Org", isVisible |-> shown]
          [] s = "languages" ->
               [name |-> "Lang " \o n, proficiency |-> "Fluent", isVisible |-> shown]
          [] s = "customSections" ->
               [title |-> "Extra " \o n,
                items |-> IF i = 2 THEN <<"item a", "item b">> ELSE <<>>,
                content |-> IF i > 2 THEN "Content " \o n ELSE "",
                isVisible |-> shown]

\* The isVisible flags of the entries of one list: every list of at most
\* MaxEntries flags.
Flags == UNION {[1..n -> BOOLEAN] : n \in 0..MaxEntries}

Entries(s, flags) == [i \in 1..Len(flags) |-> Entry(s, i, flags[i])]

\* What the other sections hold, the sectionOrder and the summary: all other
\* lists empty or of one visible entry, under the default order, an order of
\* two sections and an empty one, with and without a summary.
RenderSettings ==
    {[base |-> <<>>, order |-> DefaultSectionOrder, summary |-> ""],
     [base |-> <<TRUE>>, order |-> DefaultSectionOrder, summary |-> "About me"],
     [base |-> <<TRUE>>, order |-> <<"skills", "education">>, summary |-> ""],
     [base |-> <<>>, order |-> <<>>, summary |-> "About me"]}

\* The stored resume whose section s has the flags given and whose other
\* list sections all have the flags of base.
RenderDoc(s, flags, base, order, summary) ==
    LET list(k) == IF k = s THEN Entries(k, flags) ELSE Entries(k, base)
    IN  NewResume(1, "js1",
                  [title |-> "CV",
                   personalInfo |-> [fullName |-> "Ann Lee", email |-> "Ann@mail", phone |-> "555"],
                   summary |-> summary,
                   education |-> list("education"),
                   workExperience |-> list("workExperience"),
                   skills |-> list("skills"),
                   certifications |-> list("certifications"),
                   projects |-> list("projects"),
                   languages |-> list("languages"),
                   customSections |-> list("customSections"),
                   sectionOrder |-> order,
                   styling |-> DefaultStyling])

RenderDocs ==
    {RenderDoc(s, flags, c.base, c.order, c.summary) :
        s \in ListFields, flags \in Flags, c \in RenderSettings}

InitRender ==
    /\ \E doc \in RenderDocs : resumes = (1 :> doc)
    /\ seekers = ("js1" :> [Profile("u1", "Ann", "Lee") EXCEPT !.builtResumes = <<1>>])
                 @@ ("js2" :> Profile("u2", "Bob", "Ray"))
    /\ store = {}
    /\ nextId = 2
    /\ nextArt = 1
    /\ ops = 0
    /\ failures = 0
    /\ pending = {}
    /\ begun = 0
    /\ InitAccounts
    /\ InitHiring

NextRender == GeneratePDF

SpecRender == InitRender /\ [][NextRender]_vars

-----------------------------------------------------------------------------
(* Interleaved set-default requests.  setDefault awaits Resume.findOne and  *)
(* then resume.save(); inside save() the pre-save hook awaits               *)
(* Resume.updateMany before the document's own update is sent, so the       *)
(* clearing of the others and the setting of the target are two writes      *)
(* between which other requests run.                                        *)

\* The resume with isDefault = true assigned, as the request holds it.
Marked(resume) == [resume EXCEPT !.isDefault = TRUE]

\* A stored resume of job seeker js as createResume leaves it.
StoredResume(id, js, isDefault) ==
    [NewResume(id, js,
               [title |-> "CV " \o ToString(id),
                personalInfo |-> [fullName |-> "Ann Lee", email |-> "Ann@mail", phone |-> "555"],
                summary |-> "",
                education |-> <<>>, workExperience |-> <<>>, skills |-> <<>>,
                certifications |-> <<>>, projects |-> <<>>, languages |-> <<>>,
                customSections |-> <<>>,
                sectionOrder |-> DefaultSectionOrder, styling |-> DefaultStyling])
        EXCEPT !.isDefault = isDefault]

\* setDefault up to its findOne: the caller's resume is found and is not the
\* default (on a resume read as default save() has nothing modified, runs no
\* hook and writes nothing).
BeginSetDefault ==
    /\ begun < MaxRequests
    /\ \E u \in Users, id \in DOMAIN resumes :
         LET resume == FindOne(resumes, id, FindJobSeeker(seekers, u))
         IN  /\ resume # NoDoc
             /\ ~resume.isDefault
             /\ pending' = pending \cup
                    {[n |-> begun + 1, op |-> "setDefault", resume |-> resume,
                      cleared |-> FALSE]}
             /\ begun' = begun + 1
             /\ UNCHANGED <<resumes, seekers, store, nextId, nextArt, ops, failures, account, hiring>>

\* Mutant: the hook's updateMany and the document's update are one write.
ClearAndSet(p) ==
    /\ resumes' = [preSave(resumes, Marked(p.resume), {"isDefault"}, World.now)
                      EXCEPT ![p.resume.id].isDefault = TRUE]
    /\ pending' = (pending \ {p}) \cup {[p EXCEPT !.cleared = TRUE]}
    /\ UNCHANGED <<seekers, store, nextId, nextArt, ops, failures, begun, account, hiring>>

\* The pre-save hook of request p: updateMany on the other resumes of the
\* job seeker.  When it throws, save() rejects and the request ends in 500.
Clear(p) ==
    \/ /\ resumes' = preSave(resumes, Marked(p.resume), {"isDefault"}, World.now)
       /\ pending' = (pending \ {p}) \cup {[p EXCEPT !.cleared = TRUE]}
       /\ UNCHANGED <<seekers, store, nextId, nextArt, ops, failures, begun, account, hiring>>
    \/ /\ failures < MaxFailures
       /\ failures' = failures + 1
       /\ pending' = pending \ {p}
       /\ UNCHANGED <<resumes, seekers, store, nextId, nextArt, ops, begun, account, hiring>>

\* The document's own update of request p: $set of isDefault and updatedAt
\* on the stored resume.  When it throws the request ends in 500.
Write(p) ==
    \/ /\ resumes' = [resumes EXCEPT ![p.resume.id] =
                        SetPaths(@, [Marked(p.resume) EXCEPT !.updatedAt = World.now],
                                 {"isDefault", "updatedAt"})]
       /\ pending' = pending \ {p}
       /\ UNCHANGED <<seekers, store, nextId, nextArt, ops, failures, begun, account, hiring>>
    \/ /\ failures < MaxFailures
       /\ failures' = failures + 1
       /\ pending' = pending \ {p}
       /\ UNCHANGED <<resumes, seekers, store, nextId, nextArt, ops, begun, account, hiring>>

ClearSiblings ==
    \E p \in pending : p.op = "setDefault" /\ ~p.cleared /\ Clear(p)

SetTarget ==
    \E p \in pending : p.op = "setDefault" /\ p.cleared /\ Write(p)

\* Job seeker js1 has three resumes and js2 two, the first of each the default.
InitDefault ==
    /\ resumes = [i \in 1..5 |->
                    StoredResume(i, IF i <= 3 THEN "js1" ELSE "js2", i \in {1, 4})]
    /\ seekers = ("js1" :> [Profile("u1", "Ann", "Lee") EXCEPT !.builtResumes = <<1, 2, 3>>])
                 @@ ("js2" :> [Profile("u2", "Bob", "Ray") EXCEPT !.builtResumes = <<4, 5>>])
    /\ store = {}
    /\ nextId = 6
    /\ nextArt = 1
    /\ ops = 0
    /\ failures = 0
    /\ pending = {}
    /\ begun = 0
    /\ InitAccounts
    /\ InitHiring

NextDefault ==
    \/ BeginSetDefault
    \/ ClearSiblings
    \/ SetTarget

SpecDefault == InitDefault /\ [][NextDefault]_vars

-----------------------------------------------------------------------------
(* Interleaved detail fetches and downloads of one stored resume that has   *)
(* a PDF.                                                                   *)

InitCount ==
    /\ resumes = (1 :> [StoredResume(1, "js1", TRUE) EXCEPT
                          !.generatedPdf =
                              [url |-> "https://res.cloudinary.com/raw/1", publicId |-> 1,
                               bytes |-> 1, filename |-> "CV 1.pdf"]])
    /\ seekers = ("js1" :> [Profile("u1", "Ann", "Lee") EXCEPT !.builtResumes = <<1>>])
                 @@ ("js2" :> Profile("u2", "Bob", "Ray"))
    /\ store = {1}
    /\ nextId = 2
    /\ nextArt = 2
    /\ ops = 0
    /\ failures = 0
    /\ pending = {}
    /\ begun = 0
    /\ InitAccounts
    /\ InitHiring

NextCount ==
    \/ BeginGet
    \/ EndGet
    \/ BeginDownload
    \/ EndDownload

SpecCount == InitCount /\ [][NextCount]_vars

-----------------------------------------------------------------------------
(* Interleaved generate-pdf requests in which no call fails.  generatePDF   *)
(* awaits Resume.findOne, deleteFromCloudinary, generateAndUploadResumePDF  *)
(* and resume.save() in turn, on the copy of the resume that findOne        *)
(* returned.                                                                *)

\* generatePDF up to its findOne: the caller's resume is found.
BeginGenerate ==
    /\ begun < MaxRequests
    /\ \E u \in Users, id \in DOMAIN resumes :
         LET resume == FindOne(resumes, id, FindJobSeeker(seekers, u))
         IN  /\ resume # NoDoc
             /\ pending' = pending \cup
                    {[n |-> begun + 1, op |-> "generate", resume |-> resume,
                      at |-> "found", pdf |-> NoPdf]}
             /\ begun' = begun + 1
             /\ UNCHANGED <<resumes, seekers, store, nextId, nextArt, ops, failures, account, hiring>>

\* The old file of the copy held is deleted, when the copy names one.
DeleteOld ==
    \E p \in pending :
        /\ p.op = "generate" /\ p.at = "found"
        /\ store' = IF p.resume.generatedPdf.publicId # 0
                    THEN deleteFromCloudinary(World, p.resume.generatedPdf.publicId, {}).w.store
                    ELSE store
        /\ pending' = (pending \ {p}) \cup {[p EXCEPT !.at = "deleted"]}
        /\ UNCHANGED <<resumes, seekers, nextId, nextArt, ops, failures, begun, account, hiring>>

\* The new file is rendered from the copy held and uploaded.
Upload ==
    \E p \in pending :
        /\ p.op = "generate" /\ p.at = "deleted"
        /\ LET g == generateAndUploadResumePDF(World, p.resume, {})
           IN  /\ store' = g.w.store
               /\ nextArt' = g.w.nextArt
               /\ pending' = (pending \ {p}) \cup {[p EXCEPT !.at = "uploaded", !.pdf = g.pdf]}
        /\ UNCHANGED <<resumes, seekers, nextId, ops, failures, begun, account, hiring>>

\* resume.generatedPdf = pdfData; await resume.save().
SaveReference ==
    \E p \in pending :
        /\ p.op = "generate" /\ p.at = "uploaded"
        /\ resumes' = Save(World, p.resume, [p.resume EXCEPT !.generatedPdf = p.pdf],
                           {}, "save").w.resumes
        /\ pending' = pending \ {p}
        /\ UNCHANGED <<seekers, store, nextId, nextArt, ops, failures, begun, account, hiring>>

NextGenerate ==
    \/ BeginGenerate
    \/ DeleteOld
    \/ Upload
    \/ SaveReference

SpecGenerate == InitCount /\ [][NextGenerate]_vars

-----------------------------------------------------------------------------
(* Interleaved refresh requests.  refreshToken awaits User.findById, then   *)
(* checks the user it was given and signs the new tokens, then awaits       *)
(* user.removeRefreshToken and user.addRefreshToken in turn.                *)

resumeVars == <<resumes, seekers, store, nextId, nextArt>>

\* The last second of the clock.
MaxClock == 1

\* The tokens a client can present: the ones the server has signed, which
\* are in some user's list or have been exchanged.
Presentable ==
    UNION {Range(users[u].refreshTokens) : u \in Accounts} \cup Range(exchanged)

\* The checks refreshToken makes on the user findById returned.
MayRefresh(user, token) ==
    /\ token \in Range(user.refreshTokens)
    /\ user.isActive /\ ~user.isBlocked /\ ~user.isLocked

\* refreshToken up to generateTokens: the token verifies, the user is found
\* and passes the checks (a request that fails one ends in 401 and changes
\* nothing).
BeginRefresh ==
    /\ begun < MaxRequests
    /\ \E token \in Presentable :
         /\ MayRefresh(users[token.userId], token)
         /\ pending' = pending \cup
                {[n |-> begun + 1, op |-> "refresh", token |-> token,
                  new |-> generateRefreshToken(token.userId, clock), removed |-> FALSE]}
         /\ begun' = begun + 1
    /\ UNCHANGED <<resumeVars, ops, failures, account, hiring>>

\* await user.removeRefreshToken(token); when it throws the request ends in 500.
RemoveOld ==
    \E p \in pending :
        /\ p.op = "refresh" /\ ~p.removed
        /\ \/ /\ users' = removeRefreshToken(users, p.token.userId, p.token)
              /\ pending' = (pending \ {p}) \cup {[p EXCEPT !.removed = TRUE]}
              /\ UNCHANGED failures
           \/ /\ failures < MaxFailures
              /\ failures' = failures + 1
              /\ pending' = pending \ {p}
              /\ UNCHANGED users
        /\ UNCHANGED <<resumeVars, ops, begun, clock, exchanged, hiring>>

\* await user.addRefreshToken(tokens.refreshToken) and the 200 answer; when
\* it throws the request ends in 500.
AddNew ==
    \E p \in pending :
        /\ p.op = "refresh" /\ p.removed
        /\ \/ /\ users' = addRefreshToken(users, p.token.userId, p.new)
              /\ exchanged' = Append(exchanged, p.token)
              /\ UNCHANGED failures
           \/ /\ failures < MaxFailures
              /\ failures' = failures + 1
              /\ UNCHANGED <<users, exchanged>>
        /\ pending' = pending \ {p}
        /\ UNCHANGED <<resumeVars, ops, begun, clock, hiring>>

\* A second passes.
Tick ==
    /\ clock < MaxClock
    /\ clock' = clock + 1
    /\ UNCHANGED <<resumeVars, ops, failures, pending, begun, users, exchanged, hiring>>

NextRefresh ==
    \/ BeginRefresh
    \/ RemoveOld
    \/ AddNew
    \/ Tick

SpecRefresh == Init /\ [][NextRefresh]_vars

-----------------------------------------------------------------------------
(* controllers/jobController.js: create, update, changeStatus, remove *)

JobResult(es, js, resp, hit) == [employers |-> es, jobs |-> js, resp |-> resp, hit |-> hit]

\* employer.updateJobStats(delta)
updateJobStats(es, e, delta) == [es EXCEPT ![e].stats.totalJobs = @ + delta]

\* employer.updateActiveJobStats(delta)
updateActiveJobStats(es, e, delta) == [es EXCEPT ![e].stats.activeJobs = @ + delta]

\* Object.assign(job, req.body) on the paths the model keeps.
AssignJob(job, body) ==
    [f \in DOMAIN job |-> IF f \in DOMAIN body THEN body[f] ELSE job[f]]

\* The job's validators: status is one of the enum.
JobIsValid(job) == job.status \in JobStatuses

\* req.user may act on the job: an admin, or the employer who owns it.
MayActOn(es, u, job) ==
    Role(u) = "admin" \/ (FindEmployer(es, u) # NoEmployer /\ FindEmployer(es, u) = job.employer)

\* POST /jobs
create(es, js, u, body, F) ==
    LET employer == FindEmployer(es, u)
        id == Cardinality(DOMAIN js) + 1
        job == AssignJob([employer |-> employer, title |-> "", status |-> "Pending"], body)
        created == (id :> job) @@ js
        counted == updateJobStats(es, employer, 1)
    IN  IF employer = NoEmployer
        THEN JobResult(es, js, errorResponse(403, "Employer profile not found"), {})
        ELSE IF ~JobIsValid(job)
        THEN JobResult(es, js,
                       validationErrorResponse({[field |-> "status",
                                                 message |-> "not a valid enum value"]}), {})
        ELSE IF "save" \in F
        THEN JobResult(es, js, errorResponse(500, "Failed to create job"), {"save"})
        ELSE IF "stats" \in F
        THEN JobResult(es, created, errorResponse(500, "Failed to create job"), {"stats"})
        ELSE IF job.status # "Active"
        THEN JobResult(counted, created,
                       successResponse(201, "Job created", [kind |-> "job", job |-> job]), {})
        ELSE IF "activeStats" \in F
        THEN JobResult(counted, created, errorResponse(500, "Failed to create job"),
                       {"activeStats"})
        ELSE JobResult(updateActiveJobStats(counted, employer, 1), created,
                       successResponse(201, "Job created", [kind |-> "job", job |-> job]), {})

\* PATCH /jobs/:id
update(es, js, u, id, body, F) ==
    IF id \notin DOMAIN js
    THEN JobResult(es, js, notFoundResponse("Job not found"), {})
    ELSE IF ~MayActOn(es, u, js[id])
    THEN JobResult(es, js, errorResponse(403, "Not authorized to update this job"), {})
    ELSE LET job == AssignJob(js[id], body)
         IN  IF ~JobIsValid(job)
             THEN JobResult(es, js,
                            validationErrorResponse({[field |-> "status",
                                                      message |-> "not a valid enum value"]}),
                            {})
             ELSE IF "save" \in F
             THEN JobResult(es, js, errorResponse(500, "Failed to update job"), {"save"})
             ELSE JobResult(es, [js EXCEPT ![id] = job],
                            successResponse(200, "Job updated", [kind |-> "job", job |-> job]),
                            {})

\* PATCH /jobs/:id/status
changeStatus(es, js, u, id, body, F) ==
    IF id \notin DOMAIN js
    THEN JobResult(es, js, notFoundResponse("Job not found"), {})
    ELSE IF ~MayActOn(es, u, js[id])
    THEN JobResult(es, js, errorResponse(403, "Not authorized to change status"), {})
    ELSE LET employer == js[id].employer
             oldStatus == js[id].status
             status == body.status
             job == [js[id] EXCEPT !.status = status]
             saved == [js EXCEPT ![id] = job]
             ok(es1) == JobResult(es1, saved,
                                  successResponse(200, "Status updated",
                                                  [kind |-> "job", job |-> job]), {})
         IN  IF ~JobIsValid(job)
             THEN JobResult(es, js, errorResponse(500, "Failed to change status"), {})
             ELSE IF "save" \in F
             THEN JobResult(es, js, errorResponse(500, "Failed to change status"), {"save"})
             ELSE IF oldStatus = status \/ (status # "Active" /\ oldStatus # "Active")
             THEN ok(es)
             ELSE IF "activeStats" \in F
             THEN JobResult(es, saved, errorResponse(500, "Failed to change status"),
                            {"activeStats"})
             ELSE IF status = "Active"
             THEN ok(updateActiveJobStats(es, employer, 1))
             ELSE ok(updateActiveJobStats(es, employer, -1))

\* DELETE /jobs/:id
remove(es, js, u, id, F) ==
    IF id \notin DOMAIN js
    THEN JobResult(es, js, notFoundResponse("Job not found"), {})
    ELSE IF ~MayActOn(es, u, js[id])
    THEN JobResult(es, js, errorResponse(403, "Not authorized to delete"), {})
    ELSE LET employer == js[id].employer
             oldStatus == js[id].status
             saved == [js EXCEPT ![id].status = "Archived"]
         IN  IF "save" \in F
             THEN JobResult(es, js, errorResponse(500, "Failed to delete job"), {"save"})
             ELSE IF oldStatus # "Active"
             THEN JobResult(es, saved,
                            successResponse(200, "Job archived", [kind |-> "none"]), {})
             ELSE IF "activeStats" \in F
             THEN JobResult(es, saved, errorResponse(500, "Failed to delete job"),
                            {"activeStats"})
             ELSE JobResult(updateActiveJobStats(es, employer, -1), saved,
                            successResponse(200, "Job archived", [kind |-> "none"]), {})

\* The bodies of the job requests.
JobBodies ==
    {[title |-> "Baker"], [title |-> "Baker", status |-> "Active"],
     [status |-> "Active"], [status |-> "Closed"]}

StatusBodies == {[status |-> s] : s \in JobStatuses \cup {"Bogus"}}

\* The job ids a request may name: every job and one that does not exist.
JobIds == 1..(Cardinality(DOMAIN jobs) + 1)

JobFaults == {F \in SUBSET {"save", "stats", "activeStats"} :
                Cardinality(F) <= MaxFailures - failures}

\* The state after a job request.
CommitJob(r) ==
    /\ employers' = r.employers
    /\ jobs' = r.jobs
    /\ ops' = ops + 1
    /\ failures' = failures + Cardinality(r.hit)
    /\ UNCHANGED <<resumeVars, pending, begun, account, applications>>

CreateJob ==
    /\ ops < MaxOps
    /\ \E u \in Staff, body \in JobBodies, F \in JobFaults :
         LET r == create(employers, jobs, u, body, F)
         IN  r.hit = F /\ CommitJob(r)

UpdateJob ==
    /\ ops < MaxOps
    /\ \E u \in Staff, id \in JobIds, body \in JobBodies, F \in JobFaults :
         LET r == update(employers, jobs, u, id, body, F)
         IN  r.hit = F /\ CommitJob(r)

ChangeJobStatus ==
    /\ ops < MaxOps
    /\ \E u \in Staff, id \in JobIds, body \in StatusBodies, F \in JobFaults :
         LET r == changeStatus(employers, jobs, u, id, body, F)
         IN  r.hit = F /\ CommitJob(r)

RemoveJob ==
    /\ ops < MaxOps
    /\ \E u \in Staff, id \in JobIds, F \in JobFaults :
         LET r == remove(employers, jobs, u, id, F)
         IN  r.hit = F /\ CommitJob(r)

NextJobs ==
    \/ CreateJob
    \/ UpdateJob
    \/ ChangeJobStatus
    \/ RemoveJob

SpecJobs == Init /\ [][NextJobs]_vars

-----------------------------------------------------------------------------
(* controllers/applicationController.js: updateStatus *)

forbiddenResponse(msg) == [status |-> 403, msg |-> msg, data |-> [kind |-> "none"]]

AppResult(apps, resp, hit) == [applications |-> apps, resp |-> resp, hit |-> hit]

\* The entry updateStatus pushes on application.history.
HistoryEntry(u, body, now) ==
    [status |-> body.status,
     note |-> IF Has(body, "note") THEN body.note ELSE "",
     by |-> u,
     at |-> now]

\* Mutant: the history is replaced by the new entry.
updateStatusOverwrite(apps, es, u, id, body, now, F) ==
    IF id \notin DOMAIN apps
    THEN AppResult(apps, notFoundResponse("Application not found"), {})
    ELSE IF Role(u) # "admin"
            /\ (FindEmployer(es, u) = NoEmployer \/ apps[id].employer # FindEmployer(es, u))
    THEN AppResult(apps, forbiddenResponse("Not authorized to update this application"), {})
    ELSE LET application == [apps[id] EXCEPT !.status = body.status,
                                             !.updatedAtManual = now,
                                             !.history = <<HistoryEntry(u, body, now)>>]
         IN  IF body.status \notin ApplicationStatuses
             THEN AppResult(apps, errorResponse(500, "Failed to update application status"), {})
             ELSE IF "save" \in F
             THEN AppResult(apps, errorResponse(500, "Failed to update application status"),
                            {"save"})
             ELSE AppResult([apps EXCEPT ![id] = application],
                            successResponse(200, "Application status updated",
                                            [kind |-> "application",
                                             application |-> application]), {})

\* PATCH /applications/:id/status.  A status outside the enum fails
\* validation in save(), which the catch answers with 500.
updateStatus(apps, es, u, id, body, now, F) ==
    IF id \notin DOMAIN apps
    THEN AppResult(apps, notFoundResponse("Application not found"), {})
    ELSE IF Role(u) # "admin"
            /\ (FindEmployer(es, u) = NoEmployer \/ apps[id].employer # FindEmployer(es, u))
    THEN AppResult(apps, forbiddenResponse("Not authorized to update this application"), {})
    ELSE LET application == [apps[id] EXCEPT !.status = body.status,
                                             !.updatedAtManual = now,
                                             !.history = Append(@, HistoryEntry(u, body, now))]
         IN  IF body.status \notin ApplicationStatuses
             THEN AppResult(apps, errorResponse(500, "Failed to update application status"), {})
             ELSE IF "save" \in F
             THEN AppResult(apps, errorResponse(500, "Failed to update application status"),
                            {"save"})
             ELSE AppResult([apps EXCEPT ![id] = application],
                            successResponse(200, "Application status updated",
                                            [kind |-> "application",
                                             application |-> application]), {})

\* The bodies of the status requests: with a note, without one, and with a
\* status the schema does not know.
StatusUpdates ==
    {[status |-> "Shortlisted", note |-> "call"], [status |-> "Rejected", note |-> "no"],
     [status |-> "Applied", note |-> "again"], [status |-> "Hired"], [status |-> "Bogus"]}

\* The application ids a request may name: every application and one that
\* does not exist.
ApplicationIds == 1..(Cardinality(DOMAIN applications) + 1)

UpdateApplicationStatus ==
    /\ ops < MaxOps
    /\ \E u \in Staff, id \in ApplicationIds, body \in StatusUpdates,
          F \in {G \in SUBSET {"save"} : Cardinality(G) <= MaxFailures - failures} :
         LET r == updateStatus(applications, employers, u, id, body, ops + 1, F)
         IN  /\ r.hit = F
             /\ applications' = r.applications
             /\ ops' = ops + 1
             /\ failures' = failures + Cardinality(F)
    /\ UNCHANGED <<resumeVars, pending, begun, account, employers, jobs>>

NextApplications == UpdateApplicationStatus

SpecApplications == Init /\ [][NextApplications]_vars

-----------------------------------------------------------------------------
(* Properties.  A handler is a function of the world and the request, so a  *)
(* property of an operation is stated of the handler's result on every      *)
(* reachable world and every request.                                       *)

\* The sets of calls that may fail during one request, whatever failed before.
FaultSets(op) == {F \in SUBSET FaultPoints(op) : Cardinality(F) <= MaxFailures}

Owner(u) == FindJobSeeker(seekers, u)

Owned(w, js) == {i \in DOMAIN w.resumes : w.resumes[i].jobSeeker = js}

Defaults(w, js) == {i \in Owned(w, js) : w.resumes[i].isDefault}

SingleDefault(w) == \A js \in DOMAIN w.seekers : Cardinality(Defaults(w, js)) <= 1

\* C1: whatever requests have been served one after the other, every job
\* seeker has at most one resume with isDefault = true, now and after any
\* further request (create, update, get, delete, generate, download,
\* set-default), whichever of its calls fail.
C1_AtMostOneDefault ==
    /\ SingleDefault(World)
    /\ \A op \in IdOps \cup {"create"}, u \in Users, id \in Ids :
         \A body \in Bodies(op), F \in FaultSets(op) :
            SingleDefault(Handle(op, World, u, id, body, F).w)

\* A job seeker with two resumes, one of them the default one after a
\* set-default.
C1_Witness ==
    \E js \in DOMAIN seekers :
        /\ Cardinality(Owned(World, js)) >= 2
        /\ Cardinality(Defaults(World, js)) = 1

\* C2: when set-default on a resume B of the caller returns success, B is the
\* default and no other resume of the same job seeker is.
C2_SetDefaultMovesFlag ==
    \A u \in Users, id \in Ids, F \in FaultSets("setDefault") :
        LET r == setDefault(World, u, id, F)
        IN  r.resp.status = 200 =>
              /\ id \in Owned(r.w, Owner(u))
              /\ Defaults(r.w, Owner(u)) = {id}

\* A is the default, B is another resume of the same job seeker, and
\* set-default on B makes B the default and A not.
C2_Witness ==
    \E u \in Users, a \in DOMAIN resumes, b \in DOMAIN resumes :
        /\ a # b
        /\ {a, b} \subseteq Owned(World, Owner(u))
        /\ resumes[a].isDefault /\ ~resumes[b].isDefault
        /\ LET r == setDefault(World, u, b, {})
           IN  /\ r.resp.status = 200
               /\ r.w.resumes[b].isDefault
               /\ ~r.w.resumes[a].isDefault

\* C3: a request naming a resume of another job seeker gets the response a
\* request naming an id never handed out gets, which is 404 when no call
\* fails, and leaves the whole world (documents, store, indexes) as it was.
C3_ForeignIsNotFound ==
    \A op \in IdOps, u \in Users :
        \A id \in DOMAIN resumes \ Owned(World, Owner(u)) :
            \A body \in Bodies(op), F \in FaultSets(op) :
                LET r == Handle(op, World, u, id, body, F)
                    absent == Handle(op, World, u, nextId, body, F)
                IN  /\ r.resp = absent.resp
                    /\ r.w = World
                    /\ F = {} => r.resp.status = 404

\* u2 asks to delete a resume of js1 that has a stored PDF and is told 404.
C3_Witness ==
    \E id \in DOMAIN resumes :
        /\ resumes[id].jobSeeker = "js1"
        /\ resumes[id].generatedPdf.publicId \in store
        /\ id \in Range(seekers["js1"].builtResumes)
        /\ deleteResume(World, "u2", id, {}).resp = notFoundResponse("Resume not found")

\* C4 as stated: a successful update with the body {title: X} stores X as
\* the title and changes nothing else.
C4_TitleStoredAsGiven ==
    \A u \in Users, id \in Ids, F \in FaultSets("update") :
        LET r == updateResume(World, u, id, TitleOnly, F)
        IN  r.resp.status = 200 =>
              r.w = [World EXCEPT !.resumes[id].title = TitleOnly.title,
                                  !.resumes[id].updatedAt = World.now]

\* C4 amended: a successful update with the body {title: X} stores X without
\* its leading and trailing blanks as the title and changes nothing else: no
\* other field of the document (but updatedAt, the time of the write), no
\* other document, no index, no artifact.
C4_TitleOnlyUpdate ==
    \A u \in Users, id \in Ids, F \in FaultSets("update") :
        LET r == updateResume(World, u, id, TitleOnly, F)
        IN  r.resp.status = 200 =>
              r.w = [World EXCEPT
                        !.resumes[id].title = Trim(TitleOnly.title),
                        !.resumes[id].updatedAt =
                            IF resumes[id].title = Trim(TitleOnly.title) THEN @ ELSE World.now]

\* A resume that has been viewed and has a PDF gets a new title.
C4_Witness ==
    \E u \in Users, id \in DOMAIN resumes :
        /\ resumes[id].title = "My Resume"
        /\ resumes[id].summary # ""
        /\ resumes[id].generatedPdf # NoPdf
        /\ LET r == updateResume(World, u, id, TitleOnly, {})
           IN  r.resp.status = 200 /\ r.w.resumes[id].title = "X"

ManagedPaths == {"id", "jobSeeker", "stats", "generatedPdf", "isDefault"}

\* C5: an update whose body names server-managed paths (owner, stats,
\* generatedPdf, isDefault) leaves them as stored, on the document and on
\* every other one, whichever calls fail.
C5_ManagedFieldsKept ==
    \A u \in Users, id \in Ids, F \in FaultSets("update") :
        LET r == updateResume(World, u, id, Managed, F)
        IN  /\ DOMAIN r.w.resumes = DOMAIN resumes
            /\ \A i \in DOMAIN resumes, f \in ManagedPaths :
                  r.w.resumes[i][f] = resumes[i][f]

\* The update is applied (the title changes) to a resume whose managed
\* fields all differ from the ones the body names.
C5_Witness ==
    \E u \in Users, id \in DOMAIN resumes :
        /\ \A f \in ManagedPaths \ {"id"} : resumes[id][f] # Managed[f]
        /\ LET r == updateResume(World, u, id, Managed, {})
           IN  r.resp.status = 200 /\ r.w.resumes[id].title = "X"

\* C6: a successful get adds 1 to stats.views of the resume and changes
\* nothing else; a successful download adds 1 to stats.downloads and
\* changes nothing else (each write sets updatedAt, which is no counter).
C6_CountersStepByOne ==
    \A u \in Users, id \in Ids :
        /\ \A F \in FaultSets("get") :
              LET r == getResume(World, u, id, F)
              IN  r.resp.status = 200 =>
                    r.w = [World EXCEPT !.resumes[id].stats.views = @ + 1,
                                        !.resumes[id].updatedAt = World.now]
        /\ \A F \in FaultSets("download") :
              LET r == downloadResume(World, u, id, F)
              IN  r.resp.status = 200 =>
                    r.w = [World EXCEPT !.resumes[id].stats.downloads = @ + 1,
                                        !.resumes[id].updatedAt = World.now]

\* A resume fetched once and downloaded once, about to be fetched and
\* downloaded again.
C6_Witness ==
    \E u \in Users, id \in DOMAIN resumes :
        /\ resumes[id].stats.views = 1
        /\ resumes[id].stats.downloads = 1
        /\ getResume(World, u, id, {}).resp.status = 200
        /\ downloadResume(World, u, id, {}).resp.status = 200

\* C8: a preview changes nothing in the world, and a successful one returns
\* the stored document.
C8_PreviewReadsOnly ==
    \A u \in Users, id \in Ids, F \in FaultSets("preview") :
        LET r == previewResume(World, u, id, F)
        IN  /\ r.w = World
            /\ r.resp.status = 200 =>
                  /\ id \in Owned(World, Owner(u))
                  /\ r.resp.data = [kind |-> "resume", resume |-> resumes[id]]

\* A resume with views and downloads counted is previewed by its owner.
C8_Witness ==
    \E u \in Users, id \in DOMAIN resumes :
        /\ resumes[id].stats.views > 0
        /\ resumes[id].stats.downloads > 0
        /\ previewResume(World, u, id, {}).resp.status = 200

\* The caller's resumes that hold no PDF.
WithoutPdf(u) == {i \in Owned(World, Owner(u)) : resumes[i].generatedPdf.url = ""}

C10_CreateSurvivesPdfFailure ==
    \A u \in Users, body \in CreateBodies, F \in {{"render"}, {"upload"}} :
        LET r == createResume(World, u, body, F)
            g == generatePDF(r.w, u, nextId, {})
        IN  createResume(World, u, body, {}).resp.status = 201 =>
              /\ r.resp.status = 201
              /\ r.w.resumes = (nextId :> r.resp.data.resume) @@ resumes
              /\ r.resp.data.resume.generatedPdf = NoPdf
              /\ r.w.seekers[Owner(u)].builtResumes =
                    Append(seekers[Owner(u)].builtResumes, nextId)
              /\ r.w.store = store
              /\ g.resp.status = 200
              /\ g.w.resumes[nextId].generatedPdf.publicId \in g.w.store

\* After a create during which rendering or the upload failed: the document
\* exists without a PDF, is in its owner's index, and nothing was stored.
C10_Witness ==
    \E id \in DOMAIN resumes :
        /\ ops = 1 /\ failures = 1
        /\ resumes[id].generatedPdf = NoPdf
        /\ seekers[resumes[id].jobSeeker].builtResumes = <<id>>
        /\ store = {}

\* C7: from one state to the next, under any interleaving of the steps of
\* get and download requests, stats.views and stats.downloads of a resume
\* never decrease.
C7_CountersNeverDecrease ==
    [][\A id \in DOMAIN resumes \cap DOMAIN resumes' :
          /\ resumes'[id].stats.views >= resumes[id].stats.views
          /\ resumes'[id].stats.downloads >= resumes[id].stats.downloads]_vars

\* The non-empty sets of failures of generateAndUploadResumePDF alone.
PdfFaults == {F \in SUBSET {"render", "upload"} : F # {} /\ Cardinality(F) <= MaxFailures}

\* C11: an update with regeneratePdf = true during which rendering or the
\* upload fails returns 200, has stored the fields the body supplies, and
\* leaves generatedPdf of the document as it was before the update.
C11_UpdateSurvivesPdfFailure ==
    \A u \in Users :
        \A id \in Owned(World, Owner(u)), F \in PdfFaults :
            LET r == updateResume(World, u, id, Regenerating, F)
            IN  /\ r.resp.status = 200
                /\ r.w.resumes[id].summary = Regenerating.summary
                /\ r.resp.data.resume = r.w.resumes[id]
                /\ r.w.resumes[id].generatedPdf = resumes[id].generatedPdf

\* A resume that holds a PDF and another summary is updated with
\* regeneratePdf = true while rendering fails.
C11_Witness ==
    \E u \in Users :
        \E id \in Owned(World, Owner(u)) :
            /\ resumes[id].generatedPdf.publicId \in store
            /\ resumes[id].summary # Regenerating.summary
            /\ LET r == updateResume(World, u, id, Regenerating, {"render"})
               IN  r.hit = {"render"} /\ r.resp.status = 200

\* C12: when rendering or the upload fails during generate-pdf the caller
\* gets an error, not success, and generatedPdf of the stored document is
\* what it was; whatever fails, generatedPdf changes only to the reference
\* of a file uploaded during this request.
C12_GenerateFailureKeepsReference ==
    \A u \in Users :
        \A id \in Owned(World, Owner(u)), F \in FaultSets("generate") :
            LET r == generatePDF(World, u, id, F)
                before == resumes[id].generatedPdf
                after == r.w.resumes[id].generatedPdf
            IN  /\ F \cap {"render", "upload"} # {} /\ "find" \notin F =>
                      /\ r.resp.status = 500
                      /\ after = before
                /\ after # before =>
                      /\ after.publicId \in r.w.store \ store
                      /\ F \cap {"render", "upload"} = {}

\* A resume whose PDF is stored is asked to generate again and the upload
\* fails.
C12_Witness ==
    \E u \in Users :
        \E id \in Owned(World, Owner(u)) :
            /\ resumes[id].generatedPdf.publicId \in store
            /\ LET r == generatePDF(World, u, id, {"upload"})
               IN  r.hit = {"upload"} /\ r.resp.status = 500

\* C13: a delete of an owned resume, whether the deletion of its PDF from
\* the store succeeds or fails, returns success, removes the document and
\* nothing but it from the collection, and leaves its id out of the owner's
\* builtResumes.
C13_DeleteIsUnconditional ==
    \A u \in Users :
        \A id \in Owned(World, Owner(u)), F \in SUBSET {"cloudDelete"} :
            LET r == deleteResume(World, u, id, F)
            IN  /\ r.resp.status = 200
                /\ DOMAIN r.w.resumes = DOMAIN resumes \ {id}
                /\ \A i \in DOMAIN r.w.resumes : r.w.resumes[i] = resumes[i]
                /\ id \notin Range(r.w.seekers[Owner(u)].builtResumes)
                /\ \A js \in DOMAIN seekers \ {Owner(u)} : r.w.seekers[js] = seekers[js]

\* A resume listed in its owner's index, with a stored PDF, is deleted while
\* Cloudinary refuses the deletion of the file.
C13_Witness ==
    \E u \in Users :
        \E id \in Owned(World, Owner(u)) :
            /\ resumes[id].generatedPdf.publicId \in store
            /\ id \in Range(seekers[Owner(u)].builtResumes)
            /\ LET r == deleteResume(World, u, id, {"cloudDelete"})
               IN  r.hit = {"cloudDelete"} /\ r.resp.status = 200

\* The caller's resumes that hold a PDF.
WithPdf(u) == {i \in Owned(World, Owner(u)) : resumes[i].generatedPdf.url # ""}

\* C14: a get of an owned resume during which the save of the views
\* increment fails, and a download of an owned resume with a PDF during
\* which the save of the downloads increment fails, still return their
\* normal successful result (200).
C14_IncrementFailureHidden ==
    \A u \in Users :
        /\ \A id \in Owned(World, Owner(u)) :
              getResume(World, u, id, {"save"}).resp.status = 200
        /\ \A id \in WithPdf(u) :
              downloadResume(World, u, id, {"save"}).resp.status = 200

\* Bodies the schema rejects: no personalInfo at all, a title of 101
\* characters, a skill level outside the enum, an empty fullName.
BadSkills == <<[name |-> "Go", level |-> "Guru", isVisible |-> TRUE]>>

InvalidCreates ==
    {[autoPopulate |-> FALSE],
     [title |-> LongTitle],
     [skills |-> BadSkills],
     [personalInfo |-> [fullName |-> ""]]}

InvalidUpdates ==
    {[title |-> LongTitle],
     [skills |-> BadSkills],
     [personalInfo |-> [fullName |-> "", email |-> "a@mail", phone |-> ""]],
     [title |-> LongTitle, summary |-> "S", regeneratePdf |-> TRUE]}

\* A 400 response carrying a non-empty list of {field, message} pairs.
IsValidationFailure(resp) ==
    /\ resp.status = 400
    /\ resp.data.kind = "errors"
    /\ resp.data.errors # {}
    /\ \A e \in resp.data.errors :
          DOMAIN e = {"field", "message"} /\ e.field # "" /\ e.message # ""

\* C15: a create or an update whose document fails validation returns 400
\* with a non-empty list of {field, message} pairs and changes nothing: no
\* document, no index entry, no stored document, no artifact, whichever
\* later calls would have failed.
C15_ValidationPersistsNothing ==
    \A u \in Users :
        /\ Owner(u) # NoSeeker =>
              \A body \in InvalidCreates, F \in FaultSets("create") :
                  LET r == createResume(World, u, body, F)
                  IN  "find" \notin F =>
                        IsValidationFailure(r.resp) /\ r.w = World
        /\ \A id \in Owned(World, Owner(u)) :
              \A body \in InvalidUpdates, F \in FaultSets("update") :
                  LET r == updateResume(World, u, id, body, F)
                  IN  "find" \notin F =>
                        IsValidationFailure(r.resp) /\ r.w = World

\* The owner of a resume with a stored PDF sends an update with a title of
\* 101 characters asking for a new PDF, and a create with a skill level
\* outside the enum.
C15_Witness ==
    \E u \in Users :
        \E id \in WithPdf(u) :
            /\ resumes[id].generatedPdf.publicId \in store
            /\ updateResume(World, u, id,
                            [title |-> LongTitle, summary |-> "S", regeneratePdf |-> TRUE],
                            {}).resp.status = 400
            /\ createResume(World, u, [skills |-> BadSkills], {}).resp.status = 400

\* C16: the list holds exactly the caller's resumes, each once, the default
\* one before all others and, among the default ones and among the others,
\* a resume updated later before one updated earlier; listing changes
\* nothing.
C16_ListOwnedDefaultFirst ==
    \A u \in Users :
        LET r == getMyResumes(World, u, {})
            L == r.resp.data.resumes
        IN  /\ r.w = World
            /\ Owner(u) # NoSeeker =>
                  /\ r.resp.status = 200
                  /\ Range(L) = {resumes[i] : i \in Owned(World, Owner(u))}
                  /\ Len(L) = Cardinality(Owned(World, Owner(u)))
                  /\ r.resp.data.count = Len(L)
                  /\ \A i \in 1..Len(L), j \in 1..Len(L) :
                        i < j =>
                          /\ L[j].isDefault => L[i].isDefault
                          /\ L[i].isDefault = L[j].isDefault =>
                                L[i].updatedAt >= L[j].updatedAt

\* A job seeker whose default resume was updated before the other one: the
\* list is the default one, then the other.
C16_Witness ==
    \E u \in Users, a \in DOMAIN resumes, b \in DOMAIN resumes :
        /\ Owned(World, Owner(u)) = {a, b}
        /\ resumes[a].isDefault /\ ~resumes[b].isDefault
        /\ resumes[a].updatedAt < resumes[b].updatedAt
        /\ getMyResumes(World, u, {}).resp.data.resumes = <<resumes[a], resumes[b]>>

\* The list sections createResume populates from the profile.
PopulatedLists ==
    {"education", "workExperience", "skills", "certifications", "projects", "languages"}

\* Bodies of a create that populates from the profile: nothing supplied;
\* autoPopulate spelled out; a summary with blanks around it and an empty
\* education list; an empty summary; personal fields (one of them empty) and
\* a skill; a summary and an education entry as the schema stores them.
AutoBodies ==
    {EmptyBody,
     [autoPopulate |-> TRUE],
     [summary |-> " S ", education |-> <<>>],
     [summary |-> ""],
     [personalInfo |-> [fullName |-> "Zed Roe", phone |-> ""],
      skills |-> <<[name |-> "Go", level |-> "Expert", isVisible |-> FALSE]>>],
     [summary |-> "S",
      education |-> <<[degree |-> "PhD", institution |-> "CMU", isVisible |-> TRUE]>>]}

\* What the profile p holds for the personalInfo field k.
FromProfile(p, k) ==
    IF k = "fullName" THEN p.firstName \o " " \o p.lastName ELSE p[k]

\* The profile of the claim's scenario populates the document: its two
\* education entries, its one skill, first name, space, last name.
PopulatedFromProfile(doc, p) ==
    /\ Len(p.education) = 2 /\ Len(p.skills) = 1
    /\ Len(doc.education) = 2 /\ Len(doc.skills) = 1
    /\ \A i \in 1..2 : \A f \in DOMAIN p.education[i] :
          doc.education[i][f] = p.education[i][f]
    /\ \A f \in DOMAIN p.skills[1] : doc.skills[1][f] = p.skills[1][f]
    /\ doc.personalInfo.fullName = p.firstName \o " " \o p.lastName

\* C17 as stated: after a create with autoPopulate true or omitted, every
\* populated field of the stored document is the value the request supplies
\* when it supplies one and the profile's otherwise; with nothing supplied
\* the document has the profile's two education entries, its skill and the
\* full name made of first and last name.
C17_SuppliedElseProfile ==
    \A u \in Users, body \in AutoBodies :
        LET r == createResume(World, u, body, {})
            doc == r.w.resumes[nextId]
            p == seekers[Owner(u)]
            given == IF Has(body, "personalInfo") THEN body.personalInfo ELSE <<>>
        IN  r.resp.status = 201 =>
              /\ \A k \in DOMAIN doc.personalInfo :
                    doc.personalInfo[k] =
                        IF k \in DOMAIN given THEN given[k] ELSE FromProfile(p, k)
              /\ doc.summary = IF Has(body, "summary") THEN body.summary ELSE p.bio
              /\ \A k \in PopulatedLists :
                    doc[k] = IF Has(body, k) THEN body[k] ELSE Cast(k, p[k])
              /\ DOMAIN body \subseteq {"autoPopulate"} => PopulatedFromProfile(doc, p)

\* C17 amended: such a create succeeds and every populated field of the
\* stored document is, as the schema casts it (strings without leading and
\* trailing blanks, entries with isVisible defaulting to true), the value
\* the request supplies and the profile's otherwise, where an empty summary
\* counts as not supplied, a supplied personalInfo field replaces the
\* profile's even when empty, and a supplied empty list replaces the
\* profile's list; with nothing supplied the document has the profile's two
\* education entries, its skill and the full name made of first and last
\* name.
C17_SuppliedElseProfileCast ==
    \A u \in Users, body \in AutoBodies :
        Owner(u) # NoSeeker =>
            LET r == createResume(World, u, body, {})
                doc == r.w.resumes[nextId]
                p == seekers[Owner(u)]
                given == IF Has(body, "personalInfo") THEN body.personalInfo ELSE <<>>
            IN  /\ r.resp.status = 201
                /\ \A k \in DOMAIN doc.personalInfo :
                      doc.personalInfo[k] =
                          Trim(IF k \in DOMAIN given THEN given[k] ELSE FromProfile(p, k))
                /\ doc.summary =
                      Trim(IF Has(body, "summary") /\ body.summary # ""
                           THEN body.summary ELSE p.bio)
                /\ \A k \in PopulatedLists :
                      doc[k] = Cast(k, IF Has(body, k) THEN body[k] ELSE p[k])
                /\ DOMAIN body \subseteq {"autoPopulate"} => PopulatedFromProfile(doc, p)

\* A resume populated from Ann Lee's profile is stored, and she creates
\* another one supplying a summary with blanks around it and no education.
C17_Witness ==
    \E id \in DOMAIN resumes :
        /\ resumes[id].jobSeeker = "js1"
        /\ PopulatedFromProfile(resumes[id], seekers["js1"])
        /\ resumes[id].personalInfo.fullName = "Ann Lee"
        /\ resumes[id].summary = seekers["js1"].bio
        /\ LET r == createResume(World, "u1", [summary |-> " S ", education |-> <<>>], {})
           IN  /\ r.resp.status = 201
               /\ r.w.resumes[nextId].summary = "S"
               /\ r.w.resumes[nextId].education = <<>>
               /\ Len(r.w.resumes[nextId].skills) = 1

\* The sections the renderer draws a heading for, in the order drawn.
HeadingOrder(out) ==
    LET headings == SelectSeq(out, LAMBDA d : d.kind = "heading")
    IN  [k \in 1..Len(headings) |-> headings[k].section]

\* The positions of the entries of a list whose isVisible flag is true.
VisiblePositions(list) ==
    SelectSeq([i \in 1..Len(list) |-> i], LAMBDA i : list[i].isVisible)

\* Section s of the document has something to show.
IsPopulated(doc, s) ==
    IF s = "summary" THEN doc.summary # "" ELSE VisiblePositions(doc[s]) # <<>>

\* C18: for a document with a non-empty sectionOrder the renderer draws
\* the populated sections named in sectionOrder, in that order, and no
\* other section.
C18_RenderFollowsSectionOrder ==
    \A id \in DOMAIN resumes :
        LET doc == resumes[id]
        IN  doc.sectionOrder # <<>> =>
              HeadingOrder(generateResumePDF(doc)) =
                  SelectSeq(doc.sectionOrder, LAMBDA s : IsPopulated(doc, s))

\* The entries of section s that the drawing out prints, in the order printed.
Shown(out, s) ==
    Concat([k \in 1..Len(out) |-> IF out[k].section = s THEN out[k].entries ELSE <<>>])

\* C19: in every list section no entry whose isVisible flag is false is
\* printed, and the entries printed are exactly the other ones, in stored
\* order.
C19_VisibleEntriesAllShown ==
    \A id \in DOMAIN resumes, s \in ListFields :
        LET doc == resumes[id]
            shown == Shown(generateResumePDF(doc), s)
        IN  /\ \A k \in 1..Len(shown) : doc[s][shown[k]].isVisible
            /\ shown = VisiblePositions(doc[s])

\* The PDF of the resume is stored and was drawn from the document as it is.
IsRendered(id) ==
    /\ resumes[id].generatedPdf.publicId \in store
    /\ resumes[id].generatedPdf.bytes = Len(generateResumePDF(resumes[id]))

\* The draws of section s in out, in order.
DrawsOf(out, s) == SelectSeq(out, LAMBDA d : d.section = s)

\* C20: a section with no visible entry (an empty list, a list whose
\* entries are all hidden, an empty summary) draws nothing, neither rule
\* line nor heading; a section with a visible entry begins with one rule
\* line and one heading, its only ones.
C20_EmptySectionOmitted ==
    \A id \in DOMAIN resumes, s \in SectionNames :
        LET doc == resumes[id]
            draws == DrawsOf(generateResumePDF(doc), s)
        IN  IF IsPopulated(doc, s)
            THEN /\ Len(draws) >= 2
                 /\ draws[1].kind = "rule"
                 /\ draws[2].kind = "heading" /\ draws[2].text = SectionTitle(s)
                 /\ \A k \in 3..Len(draws) : draws[k].kind = "text"
            ELSE draws = <<>>

\* The stored PDF of a resume whose skills are all hidden and whose
\* education is visible: a heading for the one, none for the other.
C20_Witness ==
    \E id \in DOMAIN resumes :
        /\ IsRendered(id)
        /\ Len(resumes[id].skills) = 2
        /\ VisiblePositions(resumes[id].skills) = <<>>
        /\ VisiblePositions(resumes[id].education) # <<>>
        /\ LET drawn == HeadingOrder(generateResumePDF(resumes[id]))
           IN  /\ \E k \in 1..Len(drawn) : drawn[k] = "education"
               /\ \A k \in 1..Len(drawn) : drawn[k] # "skills"

\* The set-default requests in flight on the resumes of job seeker js.
InFlight(js) == {p \in pending : p.op = "setDefault" /\ p.resume.jobSeeker = js}

\* C21: once every set-default request has completed, each job seeker has at
\* most one resume with isDefault = true, however the requests' writes
\* interleaved.
C21_ConvergesToOneDefault ==
    pending = {} => SingleDefault(World)

\* C22: set-default is two writes.  No step both clears the flag of one
\* resume and sets that of another, a step sets the flag of at most one
\* resume, and the clearing write of a request leaves none of the job
\* seeker's resumes default but possibly the request's own target.
C22_SetDefaultIsTwoWrites ==
    [][LET set == {i \in DOMAIN resumes : ~resumes[i].isDefault /\ resumes'[i].isDefault}
           unset == {i \in DOMAIN resumes : resumes[i].isDefault /\ ~resumes'[i].isDefault}
       IN  /\ set = {} \/ (unset = {} /\ Cardinality(set) = 1)
           /\ \A p \in pending :
                (p.op = "setDefault" /\ ~p.cleared) =>
                    Defaults([resumes |->
                                preSave(resumes, Marked(p.resume), {"isDefault"}, World.now)],
                             p.resume.jobSeeker) \subseteq {p.resume.id}]_vars

\* Two set-default requests of js1 have completed and two of its resumes are
\* default, while js2 has a request between its two writes and no default
\* resume.
C22_Witness ==
    /\ InFlight("js1") = {}
    /\ Cardinality(Defaults(World, "js1")) = 2
    /\ \E p \in InFlight("js2") : p.cleared
    /\ Defaults(World, "js2") = {}

\* The counter a held request increments.
Counter(p) == IF p.op = "get" THEN "views" ELSE "downloads"

\* The copy request p saves: the resume it read with its counter stepped.
Stepped(p) == [p.resume EXCEPT !.stats[Counter(p)] = @ + 1]

\* C23: counter increments are read-modify-write without compare-and-swap.
\* A detail fetch or download that saves successfully leaves the counter at
\* the value it read plus one, whatever was stored in between; so of two
\* requests that read the same resume before either writes, both save
\* successfully and the counter ends one above what they read, not two.
C23_LostIncrement ==
    [][/\ \A p \in pending :
            (p.op \in {"get", "download"} /\ p \notin pending' /\ failures' = failures) =>
                resumes'[p.resume.id].stats[Counter(p)] = p.resume.stats[Counter(p)] + 1
       /\ \A p, q \in pending :
            (/\ p # q
             /\ p.op \in {"get", "download"}
             /\ q.op = p.op
             /\ q.resume.id = p.resume.id
             /\ p.resume.stats = resumes[p.resume.id].stats
             /\ q.resume.stats = resumes[p.resume.id].stats) =>
                LET first == Save(World, p.resume, Stepped(p), {}, "save")
                    second == Save(first.w, q.resume, Stepped(q), {}, "save")
                IN  /\ first.ok
                    /\ second.ok
                    /\ second.w.resumes[p.resume.id].stats[Counter(p)] =
                           resumes[p.resume.id].stats[Counter(p)] + 1]_vars

\* Two requests have read the only resume and both have saved without a
\* failure; they were detail fetches (no download is counted), and
\* stats.views is 1.
C23_Witness ==
    /\ DOMAIN resumes = {1}
    /\ begun = 2
    /\ pending = {}
    /\ failures = 0
    /\ resumes[1].stats.views = 1
    /\ resumes[1].stats.downloads = 0

\* C24: for every visible work-experience entry the line after the company
\* is the date line, the start date, a dash and the end date; the end date
\* is "Present" when isCurrent is true, whatever endDate holds, and when
\* isCurrent is false and endDate is absent, and the formatted endDate
\* otherwise; it is never empty.
C24_EndDateOrPresent ==
    \A id \in DOMAIN resumes :
        LET list == resumes[id].workExperience
            out == DrawsOf(generateResumePDF(resumes[id]), "workExperience")
            vis == VisibleIdx(list)
        IN  /\ Shown(out, "workExperience") = vis
            /\ \A k \in 1..Len(out) :
                 out[k].entries # <<>> =>
                    LET e == list[out[k].entries[1]]
                        expected == IF e.isCurrent \/ e.endDate = NoDate
                                    THEN "Present"
                                    ELSE MonthNames[e.endDate.month] \o " "
                                         \o ToString(e.endDate.year)
                    IN  /\ endDate(e) = expected
                        /\ endDate(e) # ""
                        /\ k < Len(out)
                        /\ out[k + 1].text = formatDate(e.startDate) \o " - " \o expected

\* The stored PDF of a resume with three visible work experiences: current
\* with an end date, not current without one, not current with one.
C24_Witness ==
    \E id \in DOMAIN resumes :
        /\ IsRendered(id)
        /\ VisibleIdx(resumes[id].workExperience) = <<1, 2, 3>>
        /\ LET list == resumes[id].workExperience
               out == DrawsOf(generateResumePDF(resumes[id]), "workExperience")
           IN  /\ list[1].isCurrent /\ list[1].endDate # NoDate
               /\ ~list[2].isCurrent /\ list[2].endDate = NoDate
               /\ ~list[3].isCurrent /\ list[3].endDate # NoDate
               /\ \E k \in 1..Len(out) : out[k].text = "Jan 2020 - Present"
               /\ \E k \in 1..Len(out) : out[k].text = "Feb 2020 - Present"
               /\ \E k \in 1..Len(out) : out[k].text = "Mar 2020 - Jun 2021"

\* C25: every resume that holds a PDF reference refers to a file that the
\* store still holds.
C25_ArtifactsExist ==
    \A id \in DOMAIN resumes :
        resumes[id].generatedPdf.url # "" => resumes[id].generatedPdf.publicId \in store

\* The files that the existing resumes refer to.
Referenced == {resumes[id].generatedPdf.publicId :
                  id \in {i \in DOMAIN resumes : resumes[i].generatedPdf.url # ""}}

\* C26: when no call has failed and no request is in flight, the files in
\* the store are exactly the files the existing resumes refer to.
C26_NoOrphans ==
    (pending = {} /\ failures = 0) => store = Referenced

\* C27: the builtResumes list of every job seeker holds exactly the ids of
\* the resumes that exist and are the job seeker's, each once.
C27_IndexMatchesResumes ==
    \A js \in DOMAIN seekers :
        LET built == seekers[js].builtResumes
        IN  /\ Range(built) = Owned(World, js)
            /\ Cardinality(Range(built)) = Len(built)

\* C28: refresh-token rotation.  No refresh token is exchanged successfully
\* more than once, however the refresh requests interleave, and a token that
\* has been exchanged is no longer in its user's list while no request is in
\* flight.
C28_TokenExchangedOnce ==
    /\ \A i, j \in DOMAIN exchanged : exchanged[i] = exchanged[j] => i = j
    /\ pending = {} =>
          \A i \in DOMAIN exchanged :
              exchanged[i] \notin Range(users[exchanged[i].userId].refreshTokens)

\* The jobs of employer e whose status is 'Active'.
ActiveJobs(e) == {j \in DOMAIN jobs : jobs[j].employer = e /\ jobs[j].status = "Active"}

\* C29: after any sequence of completed job requests every employer's
\* active-jobs counter is the number of the employer's jobs whose status is
\* 'Active'.
C29_ActiveCounterMatches ==
    \A e \in DOMAIN employers :
        employers[e].stats.activeJobs = Cardinality(ActiveJobs(e))

\* The user owns the application as an employer.
OwnsApplication(u, id) ==
    FindEmployer(employers, u) # NoEmployer
    /\ applications[id].employer = FindEmployer(employers, u)

\* C30: the status history is append-only and tracks the status.  A status
\* update answers 200 only to an admin or the employer who owns the
\* application; it then appends one entry with the new status and the acting
\* user, keeps the earlier entries and every other application as they are
\* and sets the status to that of the last entry.  An employer who does not
\* own the application gets 403 and nothing changes.  After any requests,
\* an application with a history has the status of its last entry.
C30_HistoryAppendOnly ==
    /\ \A id \in DOMAIN applications :
          applications[id].history # <<>> =>
             applications[id].status =
                 applications[id].history[Len(applications[id].history)].status
    /\ \A u \in Staff, id \in DOMAIN applications, body \in StatusUpdates,
          F \in SUBSET {"save"} :
          LET r == updateStatus(applications, employers, u, id, body, ops + 1, F)
              old == applications[id]
              new == r.applications[id]
          IN  /\ r.resp.status = 200 =>
                    /\ Role(u) = "admin" \/ OwnsApplication(u, id)
                    /\ Len(new.history) = Len(old.history) + 1
                    /\ SubSeq(new.history, 1, Len(old.history)) = old.history
                    /\ new.history[Len(new.history)].status = body.status
                    /\ new.history[Len(new.history)].by = u
                    /\ new.status = body.status
                    /\ \A other \in DOMAIN applications \ {id} :
                          r.applications[other] = applications[other]
              /\ r.resp.status # 200 => r.applications = applications
              /\ (Role(u) = "employer" /\ ~OwnsApplication(u, id)) =>
                    r.resp.status = 403 /\ r.applications = applications
              /\ (body.status \in ApplicationStatuses /\ F = {}
                  /\ (Role(u) = "admin" \/ OwnsApplication(u, id))) =>
                    r.resp.status = 200

\* Application 1 has been updated by its employer and then by the admin:
\* two entries, the status that of the second; the other employer is
\* refused.
C30_Witness ==
    /\ Len(applications[1].history) = 2
    /\ applications[1].history[1].by = "emp1"
    /\ applications[1].history[2].by = "admin1"
    /\ applications[1].history[1].status # applications[1].history[2].status
    /\ applications[1].status = applications[1].history[2].status
    /\ updateStatus(applications, employers, "emp2", 1, [status |-> "Hired"], ops + 1, {})
          .resp.status = 403

====
